---- MODULE Spec2Model ----
(***************************************************************************)
(* Shopping-list REST API (src/main.go, second program of the file, lines  *)
(* 225-758, with src/repository and src/database/sql).                     *)
(*                                                                         *)
(* Every HTTP request runs on its own worker (net/http starts a goroutine  *)
(* per connection).  A worker walks the chain of middleware the route was  *)
(* registered with and then the handler.  One action is one step of a      *)
(* worker that touches shared state at most once: one SQL statement, one   *)
(* operation of the LRU cache, or the writing of the response.             *)
(*                                                                         *)
(* Text that the code inspects character by character (the Authorization   *)
(* header, the session token) is a sequence of one-character strings.      *)
(* A list id in a path is abbreviated to one hexadecimal digit; uuid.Parse *)
(* reads hexadecimal digits without regard to case.  The timestamps of a   *)
(* shopping list row are left out.  Time is counted in days.  The value   *)
(* of Access-Control-Request-Headers is a sequence of header names, commas *)
(* and spaces.                                                             *)
(***************************************************************************)
EXTENDS Integers, Sequences, FiniteSets, TLC

\* ------------------------------------------------------------- bounds
\* rand.Intn(100000000000) draws from 0 .. MaxRand-1 here.
MaxRand == 2
\* The clock stops at MaxNow.
MaxNow == 1
\* Longest items array a push may produce.
MaxItems == 2

\* --------------------------------------------------- program constants
\* 7 * 24 * time.Hour, in days.
SessionTTL == 7
\* lru.New(128)
CacheSize == 128

W1 == "w1"
W2 == "w2"
Workers == {W1, W2}

\* ------------------------------------------------------------- text
Digits == <<"0", "1", "2", "3", "4", "5", "6", "7", "8", "9">>

RECURSIVE Itoa(_)
\* strconv.Itoa for n >= 0.
Itoa(n) == IF n < 10 THEN <<Digits[n + 1]>>
           ELSE Itoa(n \div 10) \o <<Digits[(n % 10) + 1]>>

\* strings.HasPrefix
HasPrefix(s, p) == /\ Len(s) >= Len(p)
                   /\ SubSeq(s, 1, Len(p)) = p

Bearer == <<"B", "e", "a", "r", "e", "r">>

\* token[7:] of a Go string; ok = FALSE is the runtime panic
\* "slice bounds out of range".
SliceFrom7(s) == IF Len(s) < 7 THEN [ok |-> FALSE, v |-> <<>>]
                 ELSE [ok |-> TRUE, v |-> SubSeq(s, 8, Len(s))]

\* strings.Split(s, sep) of a text given as a sequence of words and separators.
RECURSIVE Split(_, _)
Split(s, sep) ==
    IF \A i \in 1 .. Len(s) : s[i] # sep THEN <<s>>
    ELSE LET i == CHOOSE k \in 1 .. Len(s) :
                     s[k] = sep /\ \A j \in 1 .. (k - 1) : s[j] # sep
         IN <<SubSeq(s, 1, i - 1)>> \o Split(SubSeq(s, i + 1, Len(s)), sep)

\* strings.TrimSpace
RECURSIVE TrimSpace(_)
TrimSpace(s) ==
    IF s # <<>> /\ Head(s) = " " THEN TrimSpace(Tail(s))
    ELSE IF s # <<>> /\ s[Len(s)] = " " THEN TrimSpace(SubSeq(s, 1, Len(s) - 1))
    ELSE s

\* slices.Contains
Contains(list, x) == \E i \in 1 .. Len(list) : list[i] = x

\* ------------------------------------------------------------- users
allUsers == [admin |-> [Role |-> "admin", Username |-> "admin", Password |-> "password"],
             user |-> [Role |-> "user", Username |-> "user", Password |-> "password"]]

\* allUsers[name] of the Go map: <<>> is the nil pointer of a missing key.
UserOf(name) == IF name \in DOMAIN allUsers THEN <<allUsers[name]>> ELSE <<>>

\* ------------------------------------------------------------- ids
UUIDs == {10, 11}

\* The hexadecimal digits a path id is made of, upper and lower case.
HexVal == [a |-> 10, A |-> 10, b |-> 11]

\* Further UUIDs, written in decimal in a path: as many as fill the cache but
\* for two entries.
MoreUUIDs == 100 .. (100 + CacheSize - 3)

\* uuid.Parse: the UUID a text denotes, or an error.
ParseUUID(id) == IF id \in DOMAIN HexVal THEN [ok |-> TRUE, v |-> HexVal[id]]
                 ELSE IF \E n \in MoreUUIDs : ToString(n) = id
                 THEN [ok |-> TRUE, v |-> CHOOSE n \in MoreUUIDs : ToString(n) = id]
                 ELSE [ok |-> FALSE, v |-> 0]

\* ------------------------------------------------------------- routes
\* mux.HandleFunc registrations: the middleware around each handler, outermost
\* first.  adminRequired(h) is authRequired(inner) with inner checking the role.
\* handler := app.enableCors(mux) is around them all.  No pattern is registered
\* for OPTIONS: the mux answers such a request itself.
Chain == [create |-> <<"enableCors", "addCacheHeaders", "authRequired", "handleCreateList">>,
          getlists |-> <<"enableCors", "authRequired", "handleGetLists">>,
          update |-> <<"enableCors", "authRequired", "adminRequired", "handleUpdateList">>,
          delete |-> <<"enableCors", "authRequired", "adminRequired", "handleDeleteList">>,
          patch |-> <<"enableCors", "authRequired", "adminRequired", "handlePatchList">>,
          get |-> <<"enableCors", "authRequired", "handleGetList">>,
          push |-> <<"enableCors", "authRequired", "adminRequired", "handleListPush">>,
          login |-> <<"enableCors", "handleLogin">>,
          options |-> <<"enableCors", "methodNotAllowed">>]

\* r.Method of a request the mux dispatches to the route.
MethodOf == [create |-> "POST", getlists |-> "GET", update |-> "PUT",
             delete |-> "DELETE", patch |-> "PATCH", get |-> "GET",
             push |-> "POST", login |-> "POST", options |-> "OPTIONS"]

Handlers == {"handleCreateList", "handleGetLists", "handleUpdateList",
             "handleDeleteList", "handlePatchList", "handleGetList",
             "handleListPush", "handleLogin"}

VARIABLES
    sessions,   \* table sessions: a set of rows [token, username, expires_at]
    store,      \* table shopping_lists: UUID -> [name, items]
    cache,      \* app.ListsCache: sequence of [key, val], least recently used first
    now,        \* the wall clock, in days
    dbUp,       \* whether the database answers a query within its deadline
    pc,         \* per worker: the stage it is about to run
    req,        \* per worker: the request it serves
    resp,       \* per worker: the ResponseWriter (headers set so far, status and body once written)
    local,      \* per worker: the handler's local variables
    trace,      \* per worker: the middleware and the handler entered so far (history)
    calls,      \* per worker: store calls made for this request (history)
    used,       \* the UUIDs the database has handed out (history)
    staleKeys,  \* cache keys whose entry was read before a later PUT, PATCH or DELETE of its row (history)
    staleWorkers, \* workers whose local list was read before such a mutation (history)
    readded     \* workers between their Remove and their response for whose id a GET has called Add (history)

vars == <<sessions, store, cache, now, dbUp, pc, req, resp, local, trace, calls,
          used, staleKeys, staleWorkers, readded>>

\* What no step of a worker changes.
env == <<now, dbUp>>

hist == <<used, staleKeys, staleWorkers, readded>>

\* ------------------------------------------------------------- records
NoOpt == [some |-> FALSE, v |-> ""]
NoOptItems == [some |-> FALSE, v |-> <<>>]
Some(x) == [some |-> TRUE, v |-> x]

\* A decoded JSON body; bad = TRUE is a body json.Decode rejects.
NoBody == [bad |-> FALSE, name |-> NoOpt, items |-> NoOptItems, item |-> "",
           username |-> "", password |-> ""]

\* origin, acrm and acrh are the headers Origin, Access-Control-Request-Method
\* and Access-Control-Request-Headers; "" and <<>> are an absent header.
NoReq == [route |-> "none", auth |-> <<>>, id |-> "", inm |-> <<>>, body |-> NoBody,
          origin |-> "", acrm |-> "", acrh |-> <<>>]

NoHdr == [CacheControl |-> "", Expires |-> "", Etag |-> <<>>, ContentType |-> "",
          Vary |-> <<>>, AllowOrigin |-> "", AllowMethods |-> "", AllowHeaders |-> "",
          MaxAge |-> ""]

\* status = 0: nothing written yet.
NoResp == [status |-> 0, hdr |-> NoHdr, text |-> "", lists |-> <<>>, token |-> <<>>]

NoLocal == [list |-> <<>>, hit |-> FALSE]

NoCalls == [list |-> 0, session |-> 0]

\* ------------------------------------------------------------- Session Store
\* SELECT ... FROM sessions WHERE token = $1 (a :one query): the row, or an
\* error when no row matches or the database does not answer within 5 s.
GetSessionByToken(token, dbOk) ==
    LET rows == {s \in sessions : s.token = token}
    IN IF dbOk /\ rows # {}
       THEN [err |-> FALSE, row |-> CHOOSE s \in rows : TRUE]
       ELSE [err |-> TRUE, row |-> [token |-> <<>>, username |-> "", expires_at |-> 0]]

\* The sessions table maps a token to one session: a second row with a token
\* already present is refused.
TokenFree(token) == \A s \in sessions : s.token # token

\* AddSession with an expiry of no duration.
AddSessionNoTTL(username, n, dbOk) ==
    LET row == [token |-> Itoa(n), username |-> username, expires_at |-> now]
    IN IF dbOk /\ (\A s \in sessions : s.token # row.token)
       THEN [err |-> FALSE, row |-> row]
       ELSE [err |-> TRUE, row |-> row]

\* AddSession storing the admin's name whoever logs in.
AddSessionAsAdmin(username, n, dbOk) ==
    LET row == [token |-> Itoa(n), username |-> "admin",
                expires_at |-> now + SessionTTL]
    IN IF dbOk /\ (\A s \in sessions : s.token # row.token)
       THEN [err |-> FALSE, row |-> row]
       ELSE [err |-> TRUE, row |-> row]

\* AddSession: the token is strconv.Itoa(rand.Intn(...)), n the number drawn;
\* INSERT INTO sessions ... RETURNING the row.
AddSession(username, n, dbOk) ==
    LET row == [token |-> Itoa(n), username |-> username,
                expires_at |-> now + SessionTTL]
    IN IF dbOk /\ TokenFree(row.token)
       THEN [err |-> FALSE, row |-> row]
       ELSE [err |-> TRUE, row |-> row]

\* ------------------------------------------------------------- steps of a worker
\* The stage after the one the worker is in, in the chain of its route.
NextStage(w) == Chain[req[w].route][Len(trace[w]) + 2]

Enter(w) == trace' = [trace EXCEPT ![w] = Append(@, pc[w])]

\* next(w, r)
Forward(w) == pc' = [pc EXCEPT ![w] = NextStage(w)]

\* http.Error(w, text, status) and return.
HttpError(w, text, status) ==
    /\ resp' = [resp EXCEPT ![w].status = status, ![w].text = text]
    /\ pc' = [pc EXCEPT ![w] = "done"]

\* A run-time panic in a handler: net/http recovers it and drops the
\* connection, no response is written.
Panic(w) ==
    /\ pc' = [pc EXCEPT ![w] = "panicked"]
    /\ UNCHANGED resp

CountSession(w) == calls' = [calls EXCEPT ![w].session = @ + 1]

\* A worker takes a request from the network.
Receive(w, r) ==
    /\ pc[w] \in {"idle", "done", "panicked"}
    /\ req' = [req EXCEPT ![w] = r]
    /\ pc' = [pc EXCEPT ![w] = Chain[r.route][1]]
    /\ resp' = [resp EXCEPT ![w] = NoResp]
    /\ local' = [local EXCEPT ![w] = NoLocal]
    /\ trace' = [trace EXCEPT ![w] = <<>>]
    /\ calls' = [calls EXCEPT ![w] = NoCalls]
    /\ staleWorkers' = staleWorkers \ {w}
    /\ readded' = readded \ {w}
    /\ UNCHANGED <<sessions, store, cache, env, used, staleKeys>>

\* An allow-list of origins that has an origin more.
trustedOriginsAndOther ==
    <<"http://localhost:9000", "http://localhost:9002", "http://localhost:3000",
      "http://other.example">>

\* enableCors: the allow-lists.
trustedOrigins == <<"http://localhost:9000", "http://localhost:9002", "http://localhost:3000">>
allowedMethods == <<"GET", "POST", "PUT", "PATCH", "DELETE", "OPTIONS">>
allowedHeaders == <<<<"Authorization">>, <<"Content-Type">>>>

\* enableCors that looks at the first requested header only.
CorsDecisionFirstHeaderOnly(method, acrm, acrh) ==
    IF ~(method = "OPTIONS" /\ acrm # "") THEN "next"
    ELSE IF ~Contains(allowedMethods, acrm) THEN "405"
    ELSE IF acrh # <<>> /\ ~Contains(allowedHeaders, TrimSpace(Split(acrh, ",")[1]))
         THEN "403"
    ELSE "200"

\* enableCors that passes a preflight it accepts on to the inner handler.
CorsDecisionForwardsPreflight(method, acrm, acrh) ==
    IF ~(method = "OPTIONS" /\ acrm # "") THEN "next"
    ELSE IF ~Contains(allowedMethods, acrm) THEN "405"
    ELSE IF acrh # <<>>
            /\ LET headerList == Split(acrh, ",")
               IN \E i \in 1 .. Len(headerList) :
                     ~Contains(allowedHeaders, TrimSpace(headerList[i]))
         THEN "403"
    ELSE "next"

\* enableCors that checks the requested headers before the requested method.
CorsDecisionHeadersFirst(method, acrm, acrh) ==
    IF ~(method = "OPTIONS" /\ acrm # "") THEN "next"
    ELSE IF acrh # <<>>
            /\ LET headerList == Split(acrh, ",")
               IN \E i \in 1 .. Len(headerList) :
                     ~Contains(allowedHeaders, TrimSpace(headerList[i]))
         THEN "403"
    ELSE IF ~Contains(allowedMethods, acrm) THEN "405"
    ELSE "200"

\* What enableCors decides for a request from a trusted origin: "next" for a
\* request that is no preflight, else the status it answers the preflight with.
CorsDecision(method, acrm, acrh) ==
    IF ~(method = "OPTIONS" /\ acrm # "") THEN "next"
    ELSE IF ~Contains(allowedMethods, acrm) THEN "405"
    ELSE IF acrh # <<>>
            /\ LET headerList == Split(acrh, ",")
               IN \E i \in 1 .. Len(headerList) :
                     ~Contains(allowedHeaders, TrimSpace(headerList[i]))
         THEN "403"
    ELSE "200"

\* w.WriteHeader(status) and return.
WriteHeader(w, hdr, status) ==
    /\ resp' = [resp EXCEPT ![w].hdr = hdr, ![w].status = status]
    /\ pc' = [pc EXCEPT ![w] = "done"]

\* enableCors that allows every request, with or without an origin.
EnableCorsAllowsAll(w) ==
    /\ pc[w] = "enableCors"
    /\ Enter(w)
    /\ resp' = [resp EXCEPT
                   ![w].hdr.Vary = @ \o <<"Origin", "Access-Control-Request-Method">>,
                   ![w].hdr.AllowOrigin = "*"]
    /\ Forward(w)
    /\ UNCHANGED <<sessions, store, cache, env, req, local, calls, hist>>

\* app.enableCors
EnableCors(w) ==
    /\ pc[w] = "enableCors"
    /\ Enter(w)
    /\ LET origin == req[w].origin
           vary == [resp[w].hdr EXCEPT
                       !.Vary = @ \o <<"Origin", "Access-Control-Request-Method">>]
           allow == [vary EXCEPT !.AllowOrigin = origin]
           d == CorsDecision(MethodOf[req[w].route], req[w].acrm, req[w].acrh)
       IN IF origin = "" \/ ~Contains(trustedOrigins, origin)
          THEN /\ resp' = [resp EXCEPT ![w].hdr = vary]
               /\ Forward(w)
          ELSE IF d = "next"
          THEN /\ resp' = [resp EXCEPT ![w].hdr = allow]
               /\ Forward(w)
          ELSE IF d = "405" THEN WriteHeader(w, allow, 405)
          ELSE IF d = "403" THEN WriteHeader(w, allow, 403)
          ELSE WriteHeader(w, [allow EXCEPT
                                  !.AllowMethods = "GET, POST, PUT, PATCH, DELETE, OPTIONS",
                                  !.AllowHeaders = "Authorization, Content-Type",
                                  !.MaxAge = "300"], 200)
    /\ UNCHANGED <<sessions, store, cache, env, req, local, calls, hist>>

\* The mux finds the path registered under other methods only.
MethodNotAllowed(w) ==
    /\ pc[w] = "methodNotAllowed"
    /\ Enter(w)
    /\ HttpError(w, "Method Not Allowed", 405)
    /\ UNCHANGED <<sessions, store, cache, env, req, local, calls, hist>>

\* addCacheHeaders without the Expires header.
AddCacheHeadersNoExpires(w) ==
    /\ pc[w] = "addCacheHeaders"
    /\ Enter(w)
    /\ resp' = [resp EXCEPT ![w].hdr.CacheControl = "public, max-age=300"]
    /\ Forward(w)
    /\ UNCHANGED <<sessions, store, cache, env, req, local, calls, hist>>

\* app.addCacheHeaders
AddCacheHeaders(w) ==
    /\ pc[w] = "addCacheHeaders"
    /\ Enter(w)
    /\ resp' = [resp EXCEPT ![w].hdr.CacheControl = "public, max-age=300",
                            ![w].hdr.Expires = "now+5m"]
    /\ Forward(w)
    /\ UNCHANGED <<sessions, store, cache, env, req, local, calls, hist>>

\* authRequired letting a request pass when the lookup fails although the
\* database has the session or cannot tell.
AuthDecisionFailOpen(header, dbOk) ==
    IF ~HasPrefix(header, Bearer) THEN "401"
    ELSE IF ~SliceFrom7(header).ok THEN "panic"
    ELSE IF dbOk /\ GetSessionByToken(SliceFrom7(header).v, dbOk).err THEN "401"
    ELSE "next"

\* What authRequired decides for an Authorization header.
AuthDecision(header, dbOk) ==
    IF ~HasPrefix(header, Bearer) THEN "401"
    ELSE IF ~SliceFrom7(header).ok THEN "panic"
    ELSE IF GetSessionByToken(SliceFrom7(header).v, dbOk).err THEN "401"
    ELSE "next"

\* authRequired deleting the sessions that have expired as it looks one up.
AuthRequiredPurging(w) ==
    /\ pc[w] = "authRequired"
    /\ Enter(w)
    /\ LET d == AuthDecision(req[w].auth, dbUp)
         IN /\ IF d = "401" THEN HttpError(w, "unauthorized", 401)
               ELSE IF d = "panic" THEN Panic(w)
               ELSE Forward(w) /\ UNCHANGED resp
            /\ IF HasPrefix(req[w].auth, Bearer) /\ SliceFrom7(req[w].auth).ok
               THEN CountSession(w) ELSE UNCHANGED calls
    /\ sessions' = {s \in sessions : s.expires_at > now}
    /\ UNCHANGED <<store, cache, env, req, local, hist>>

\* app.authRequired
AuthRequired(w) ==
    /\ pc[w] = "authRequired"
    /\ Enter(w)
    /\ LET d == AuthDecision(req[w].auth, dbUp)
         IN /\ IF d = "401" THEN HttpError(w, "unauthorized", 401)
               ELSE IF d = "panic" THEN Panic(w)
               ELSE Forward(w) /\ UNCHANGED resp
            /\ IF HasPrefix(req[w].auth, Bearer) /\ SliceFrom7(req[w].auth).ok
               THEN CountSession(w) ELSE UNCHANGED calls
    /\ UNCHANGED <<sessions, store, cache, env, req, local, hist>>

\* adminRequired without its comparison of the role.
AdminDecisionAnyRole(header, dbOk) ==
    IF ~SliceFrom7(header).ok THEN "panic"
    ELSE LET s == GetSessionByToken(SliceFrom7(header).v, dbOk)
         IN IF s.err THEN "401"
            ELSE IF UserOf(s.row.username) = <<>> THEN "panic"
            ELSE "next"

\* What the function adminRequired wraps in authRequired decides.
AdminDecision(header, dbOk) ==
    IF ~SliceFrom7(header).ok THEN "panic"
    ELSE LET s == GetSessionByToken(SliceFrom7(header).v, dbOk)
         IN IF s.err THEN "401"
            ELSE LET user == UserOf(s.row.username)
                 IN IF user = <<>> THEN "panic"
                    ELSE IF user[1].Role # "admin" THEN "403"
                    ELSE "next"

\* app.adminRequired
AdminRequired(w) ==
    /\ pc[w] = "adminRequired"
    /\ Enter(w)
    /\ LET d == AdminDecision(req[w].auth, dbUp)
         IN /\ IF d = "401" THEN HttpError(w, "unauthorized", 401)
               ELSE IF d = "403" THEN HttpError(w, "forbidden", 403)
               ELSE IF d = "panic" THEN Panic(w)
               ELSE Forward(w) /\ UNCHANGED resp
            /\ IF SliceFrom7(req[w].auth).ok
               THEN CountSession(w) ELSE UNCHANGED calls
    /\ UNCHANGED <<sessions, store, cache, env, req, local, hist>>

\* handleLogin without its comparison of the password.
CredentialsMatchAnyPassword(username, password) == UserOf(username) # <<>>

\* user != nil && user.Password == data.Password
CredentialsMatch(username, password) ==
    LET user == UserOf(username)
    IN user # <<>> /\ user[1].Password = password

\* app.handleLogin
HandleLogin(w) ==
    /\ pc[w] = "handleLogin"
    /\ Enter(w)
    /\ LET data == req[w].body
       IN IF data.bad
          THEN /\ HttpError(w, "bad json", 500)
               /\ UNCHANGED <<sessions, calls>>
          ELSE IF CredentialsMatch(data.username, data.password)
          THEN \E n \in 0 .. (MaxRand - 1) :
                 LET a == AddSession(UserOf(data.username)[1].Username, n, dbUp)
                 IN /\ CountSession(w)
                    /\ IF a.err
                       THEN /\ HttpError(w, "add session error", 500)
                            /\ UNCHANGED sessions
                       ELSE /\ sessions' = sessions \cup {a.row}
                            /\ resp' = [resp EXCEPT ![w].status = 200,
                                                    ![w].hdr.ContentType = "application/json",
                                                    ![w].token = a.row.token]
                            /\ pc' = [pc EXCEPT ![w] = "done"]
          ELSE /\ HttpError(w, "invalid credentials", 401)
               /\ UNCHANGED <<sessions, calls>>
    /\ UNCHANGED <<store, cache, env, req, local, hist>>

\* A day passes.
Tick ==
    /\ now < MaxNow
    /\ now' = now + 1
    /\ UNCHANGED <<sessions, store, cache, dbUp, pc, req, resp, local, trace, calls, hist>>

\* The database stops answering within the deadline of a query, or answers again.
DbFlip ==
    /\ dbUp' = ~dbUp
    /\ UNCHANGED <<sessions, store, cache, now, pc, req, resp, local, trace, calls, hist>>

\* ------------------------------------------------------------- List Store
NoRow == [id |-> 0, name |-> "", items |-> <<>>]

\* A row of shopping_lists as the queries return it.
Row(st, u) == [id |-> u, name |-> st[u].name, items |-> st[u].items]

\* The table with row u written, or inserted.
Put(st, u, name, items) ==
    [x \in DOMAIN st \cup {u} |->
        IF x = u THEN [name |-> name, items |-> items] ELSE st[x]]

\* GetShoppingListByID: uuid.Parse, then SELECT ... WHERE id = $1 (:one).
GetShoppingListByID(id, dbOk) ==
    LET p == ParseUUID(id)
    IN IF p.ok /\ dbOk /\ p.v \in DOMAIN store
       THEN [err |-> FALSE, row |-> Row(store, p.v)]
       ELSE [err |-> TRUE, row |-> NoRow]

\* A delete that returns an error when no row matched.
DeleteErrsWhenMissing(id, dbOk) ==
    LET p == ParseUUID(id)
    IN IF p.ok /\ dbOk /\ p.v \in DOMAIN store
       THEN [err |-> FALSE, store |-> [x \in DOMAIN store \ {p.v} |-> store[x]]]
       ELSE [err |-> TRUE, store |-> store]

\* DeleteShoppingListByID: uuid.Parse, then DELETE ... WHERE id = $1 (:exec),
\* which succeeds whether or not a row matched.
DeleteShoppingListByID(id, dbOk) ==
    LET p == ParseUUID(id)
    IN IF p.ok /\ dbOk
       THEN [err |-> FALSE, store |-> [x \in DOMAIN store \ {p.v} |-> store[x]]]
       ELSE [err |-> TRUE, store |-> store]

\* An update that keeps the stored name when the given name is empty.
UpdateKeepsNameWhenEmpty(id, name, items, dbOk) ==
    LET p == ParseUUID(id)
    IN IF p.ok /\ dbOk /\ p.v \in DOMAIN store
       THEN LET st == Put(store, p.v, IF name = "" THEN store[p.v].name ELSE name, items)
            IN [err |-> FALSE, store |-> st, row |-> Row(st, p.v)]
       ELSE [err |-> TRUE, store |-> store, row |-> NoRow]

\* UpdateShoppingListByID: convertStringToUUID, then
\* UPDATE ... SET name = $2, items = $3 WHERE id = $1 RETURNING ... (:one).
UpdateShoppingListByID(id, name, items, dbOk) ==
    LET p == ParseUUID(id)
    IN IF p.ok /\ dbOk /\ p.v \in DOMAIN store
       THEN LET st == Put(store, p.v, name, items)
            IN [err |-> FALSE, store |-> st, row |-> Row(st, p.v)]
       ELSE [err |-> TRUE, store |-> store, row |-> NoRow]

\* PartialUpdate that takes empty items for items that are not given.
PartialUpdateEmptyItemsAbsent(id, name, items, dbOk) ==
    LET p == ParseUUID(id)
    IN IF p.ok /\ dbOk /\ p.v \in DOMAIN store
       THEN LET st == Put(store, p.v,
                          IF name.some /\ name.v # "" THEN name.v ELSE store[p.v].name,
                          IF items.some /\ items.v # <<>> THEN items.v ELSE store[p.v].items)
            IN [err |-> FALSE, store |-> st, row |-> Row(st, p.v)]
       ELSE [err |-> TRUE, store |-> store, row |-> NoRow]

\* PartialUpdate that sets the name parameter for every name that is given.
PartialUpdateEmptyNameGiven(id, name, items, dbOk) ==
    LET p == ParseUUID(id)
    IN IF p.ok /\ dbOk /\ p.v \in DOMAIN store
       THEN LET st == Put(store, p.v,
                          IF name.some THEN name.v ELSE store[p.v].name,
                          IF items.some THEN items.v ELSE store[p.v].items)
            IN [err |-> FALSE, store |-> st, row |-> Row(st, p.v)]
       ELSE [err |-> TRUE, store |-> store, row |-> NoRow]

\* PartialUpdate: the name parameter is set only for a name that is given and
\* not empty, the items parameter only for items that are given;
\* UPDATE ... SET name = COALESCE($name, name), items = COALESCE($items, items).
PartialUpdate(id, name, items, dbOk) ==
    LET p == ParseUUID(id)
    IN IF p.ok /\ dbOk /\ p.v \in DOMAIN store
       THEN LET paramName == IF name.some /\ name.v # "" THEN Some(name.v) ELSE NoOpt
                paramItems == IF items.some THEN Some(items.v) ELSE NoOptItems
                st == Put(store, p.v,
                          IF paramName.some THEN paramName.v ELSE store[p.v].name,
                          IF paramItems.some THEN paramItems.v ELSE store[p.v].items)
            IN [err |-> FALSE, store |-> st, row |-> Row(st, p.v)]
       ELSE [err |-> TRUE, store |-> store, row |-> NoRow]

\* A push that writes the item over the items: SET items = $2.
PushItemOverwrites(id, item, dbOk) ==
    LET p == ParseUUID(id)
    IN IF p.ok /\ dbOk /\ p.v \in DOMAIN store
       THEN LET st == Put(store, p.v, store[p.v].name, <<item>>)
            IN [err |-> FALSE, store |-> st, row |-> Row(st, p.v)]
       ELSE [err |-> TRUE, store |-> store, row |-> NoRow]

\* PushItemToShoppingList: convertStringToUUID, then
\* UPDATE ... SET items = items || $2 WHERE id = $1 RETURNING ... (:one).
PushItemToShoppingList(id, item, dbOk) ==
    LET p == ParseUUID(id)
    IN IF p.ok /\ dbOk /\ p.v \in DOMAIN store
       THEN LET st == Put(store, p.v, store[p.v].name, Append(store[p.v].items, item))
            IN [err |-> FALSE, store |-> st, row |-> Row(st, p.v)]
       ELSE [err |-> TRUE, store |-> store, row |-> NoRow]

\* CreateShoppingList: INSERT ... RETURNING ...; u is the id the database assigns.
CreateShoppingList(name, items, u, dbOk) ==
    IF dbOk
    THEN LET st == Put(store, u, name, items)
         IN [err |-> FALSE, store |-> st, row |-> Row(st, u)]
    ELSE [err |-> TRUE, store |-> store, row |-> NoRow]

RECURSIVE RowsOf(_, _)
\* The rows with an id in S, in the order of their ids.
RowsOf(st, S) ==
    IF S = {} THEN <<>>
    ELSE LET u == CHOOSE x \in S : \A y \in S : x <= y
         IN <<Row(st, u)>> \o RowsOf(st, S \ {u})

\* A query for the lists that returns the first row only.
GetAllShoppingListsFirstOnly(dbOk) ==
    IF dbOk
    THEN [err |-> FALSE,
          rows |-> IF store = <<>> THEN <<>>
                   ELSE <<RowsOf(store, DOMAIN store)[1]>>]
    ELSE [err |-> TRUE, rows |-> <<>>]

\* GetAllShoppingLists: SELECT ... FROM shopping_lists (:many).
GetAllShoppingLists(dbOk) ==
    IF dbOk THEN [err |-> FALSE, rows |-> RowsOf(store, DOMAIN store)]
    ELSE [err |-> TRUE, rows |-> <<>>]

\* ------------------------------------------------------------- LRU cache
CacheKeys(c) == {c[i].key : i \in 1 .. Len(c)}

Without(c, k) == SelectSeq(c, LAMBDA e : e.key # k)

CacheIndex(c, k) == CHOOSE i \in 1 .. Len(c) : c[i].key = k

\* A Get that leaves the entry where it is (Cache.Peek).
CachePeek(c, k) ==
    IF k \in CacheKeys(c)
    THEN [ok |-> TRUE, val |-> c[CacheIndex(c, k)].val, cache |-> c]
    ELSE [ok |-> FALSE, val |-> NoRow, cache |-> c]

\* Cache.Get: the value and whether the key is present; a hit makes the entry
\* the most recently used.
CacheGet(c, k) ==
    IF k \in CacheKeys(c)
    THEN LET e == c[CacheIndex(c, k)]
         IN [ok |-> TRUE, val |-> e.val, cache |-> Append(Without(c, k), e)]
    ELSE [ok |-> FALSE, val |-> NoRow, cache |-> c]

\* Cache.Add: the entry becomes the most recently used; a new key in a full
\* cache evicts the least recently used entry.
CacheAdd(c, k, v) ==
    LET c1 == Append(Without(c, k), [key |-> k, val |-> v])
    IN IF Len(c1) > CacheSize THEN Tail(c1) ELSE c1

\* Cache.Remove
CacheRemove(c, k) == Without(c, k)

\* ------------------------------------------------------------- history of staleness
\* A PUT, PATCH or DELETE of row u has succeeded in the store: every cache
\* entry of u, and every list read from the store and not yet put in the
\* cache, is from before it.
MarkStale(w, u) ==
    /\ staleKeys' = staleKeys \cup
          {k \in CacheKeys(cache) : ParseUUID(k).ok /\ ParseUUID(k).v = u}
    /\ staleWorkers' = staleWorkers \cup
          {x \in Workers \ {w} : pc[x] = "getAdd" /\ local[x].list[1].id = u}

\* The stages of a PUT, PATCH or DELETE around its app.ListsCache.Remove(id).
EvictStages == {"updateEvict", "patchEvict", "deleteEvict"}
RespondStages == {"updateRespond", "patchRespond", "deleteRespond"}

CountList(w) == calls' = [calls EXCEPT ![w].list = @ + 1]

\* json.Marshal / json.NewEncoder(w).Encode of a shopping list.
Marshal(list) == [id |-> list.id, name |-> list.name, items |-> list.items]

\* An Etag that is the same for every record.
EtagOfNothing(data) == <<[id |-> 0, name |-> "", items |-> <<>>]>>

\* fmt.Sprintf(`"%x"`, sha256.Sum256(data)): the digest stands for its data.
Etag(data) == <<data>>

\* Encode(list) to the response: the first write sends status 200.
WriteList(w, list, status) ==
    /\ resp' = [resp EXCEPT ![w].status = status, ![w].lists = <<Marshal(list)>>]
    /\ pc' = [pc EXCEPT ![w] = "done"]

\* ------------------------------------------------------------- handlers
\* app.handleCreateList
HandleCreateList(w) ==
    /\ pc[w] = "handleCreateList"
    /\ Enter(w)
    /\ LET newList == req[w].body
       IN IF newList.bad
          THEN /\ HttpError(w, "bad json", 400)
               /\ UNCHANGED <<store, used, calls>>
          ELSE \E u \in UUIDs \ used :
                 LET r == CreateShoppingList(newList.name.v, newList.items.v, u, dbUp)
                 IN /\ CountList(w)
                    /\ IF r.err
                       THEN /\ HttpError(w, "error to create the new shopping list", 500)
                            /\ UNCHANGED <<store, used>>
                       ELSE /\ store' = r.store
                            /\ used' = used \cup {u}
                            /\ WriteList(w, r.row, 201)
    /\ UNCHANGED <<sessions, cache, env, req, local, staleKeys, staleWorkers, readded>>

\* app.handleGetLists
HandleGetLists(w) ==
    /\ pc[w] = "handleGetLists"
    /\ Enter(w)
    /\ CountList(w)
    /\ LET r == GetAllShoppingLists(dbUp)
         IN IF r.err
            THEN HttpError(w, "repository: error to get all the shopping lists", 500)
            ELSE /\ resp' = [resp EXCEPT ![w].status = 200,
                                         ![w].hdr.ContentType = "application/json",
                                         ![w].lists = r.rows]
                 /\ pc' = [pc EXCEPT ![w] = "done"]
    /\ UNCHANGED <<sessions, store, cache, env, req, local, hist>>

\* app.handleDeleteList, to the store call.
HandleDeleteList(w) ==
    /\ pc[w] = "handleDeleteList"
    /\ Enter(w)
    /\ CountList(w)
    /\ LET r == DeleteShoppingListByID(req[w].id, dbUp)
         IN IF r.err
            THEN /\ HttpError(w, "list not found", 500)
                 /\ UNCHANGED <<store, staleKeys, staleWorkers>>
            ELSE /\ store' = r.store
                 /\ MarkStale(w, ParseUUID(req[w].id).v)
                 /\ pc' = [pc EXCEPT ![w] = "deleteEvict"]
                 /\ UNCHANGED resp
    /\ UNCHANGED <<sessions, cache, env, req, local, used, readded>>

\* app.handleDeleteList: app.ListsCache.Remove(id)
DeleteEvict(w) ==
    /\ pc[w] = "deleteEvict"
    /\ cache' = CacheRemove(cache, req[w].id)
    /\ staleKeys' = staleKeys \ {req[w].id}
    /\ pc' = [pc EXCEPT ![w] = "deleteRespond"]
    /\ readded' = readded \ {w}
    /\ UNCHANGED <<sessions, store, env, req, resp, local, trace, calls, used, staleWorkers>>

\* app.handleDeleteList: w.WriteHeader(http.StatusNoContent)
DeleteRespond(w) ==
    /\ pc[w] = "deleteRespond"
    /\ resp' = [resp EXCEPT ![w].status = 204]
    /\ pc' = [pc EXCEPT ![w] = "done"]
    /\ local' = [local EXCEPT ![w] = NoLocal]
    /\ UNCHANGED <<sessions, store, cache, env, req, trace, calls, hist>>

\* app.handleUpdateList, to the store call.
HandleUpdateList(w) ==
    /\ pc[w] = "handleUpdateList"
    /\ Enter(w)
    /\ LET bodyData == req[w].body
       IN IF bodyData.bad
          THEN /\ HttpError(w, "bad json", 400)
               /\ UNCHANGED <<store, local, calls, staleKeys, staleWorkers>>
          ELSE LET r == UpdateShoppingListByID(req[w].id, bodyData.name.v,
                                                 bodyData.items.v, dbUp)
                 IN /\ CountList(w)
                    /\ IF r.err
                       THEN /\ HttpError(w, "repository: error to update the shopping list", 500)
                            /\ UNCHANGED <<store, local, staleKeys, staleWorkers>>
                       ELSE /\ store' = r.store
                            /\ local' = [local EXCEPT ![w].list = <<r.row>>]
                            /\ MarkStale(w, r.row.id)
                            /\ pc' = [pc EXCEPT ![w] = "updateEvict"]
                            /\ UNCHANGED resp
    /\ UNCHANGED <<sessions, cache, env, req, used, readded>>

\* handleUpdateList without its app.ListsCache.Remove(id).
UpdateEvictSkipped(w) ==
    /\ pc[w] = "updateEvict"
    /\ pc' = [pc EXCEPT ![w] = "updateRespond"]
    /\ readded' = readded \ {w}
    /\ UNCHANGED <<sessions, store, cache, env, req, resp, local, trace, calls,
                   used, staleKeys, staleWorkers>>

\* handleUpdateList writing the updated list into the record the cache entry
\* points to, which the GETs answered from that entry hold as well.
UpdateEvictInPlace(w) ==
    /\ pc[w] = "updateEvict"
    /\ cache' = [i \in 1 .. Len(cache) |->
                   IF cache[i].key = req[w].id
                   THEN [key |-> cache[i].key, val |-> local[w].list[1]]
                   ELSE cache[i]]
    /\ local' = [x \in Workers |->
                   IF x # w /\ pc[x] = "getRespond" /\ local[x].hit /\ req[x].id = req[w].id
                   THEN [local[x] EXCEPT !.list = local[w].list]
                   ELSE local[x]]
    /\ staleKeys' = staleKeys \ {req[w].id}
    /\ pc' = [pc EXCEPT ![w] = "updateRespond"]
    /\ readded' = readded \ {w}
    /\ UNCHANGED <<sessions, store, env, req, resp, trace, calls, used, staleWorkers>>

\* app.handleUpdateList: app.ListsCache.Remove(id)
UpdateEvict(w) ==
    /\ pc[w] = "updateEvict"
    /\ cache' = CacheRemove(cache, req[w].id)
    /\ staleKeys' = staleKeys \ {req[w].id}
    /\ pc' = [pc EXCEPT ![w] = "updateRespond"]
    /\ readded' = readded \ {w}
    /\ UNCHANGED <<sessions, store, env, req, resp, local, trace, calls, used, staleWorkers>>

\* app.handleUpdateList: json.NewEncoder(w).Encode(updatedList)
UpdateRespond(w) ==
    /\ pc[w] = "updateRespond"
    /\ WriteList(w, local[w].list[1], 200)
    /\ local' = [local EXCEPT ![w] = NoLocal]
    /\ UNCHANGED <<sessions, store, cache, env, req, trace, calls, hist>>

\* app.handlePatchList, to the store call.
HandlePatchList(w) ==
    /\ pc[w] = "handlePatchList"
    /\ Enter(w)
    /\ LET data == req[w].body
       IN IF data.bad
          THEN /\ HttpError(w, "invalid data", 400)
               /\ UNCHANGED <<store, local, calls, staleKeys, staleWorkers>>
          ELSE LET r == PartialUpdate(req[w].id, data.name, data.items, dbUp)
                 IN /\ CountList(w)
                    /\ IF r.err
                       THEN /\ HttpError(w, "list not found", 404)
                            /\ UNCHANGED <<store, local, staleKeys, staleWorkers>>
                       ELSE /\ store' = r.store
                            /\ local' = [local EXCEPT ![w].list = <<r.row>>]
                            /\ MarkStale(w, r.row.id)
                            /\ pc' = [pc EXCEPT ![w] = "patchEvict"]
                            /\ UNCHANGED resp
    /\ UNCHANGED <<sessions, cache, env, req, used, readded>>

\* app.handlePatchList: app.ListsCache.Remove(id)
PatchEvict(w) ==
    /\ pc[w] = "patchEvict"
    /\ cache' = CacheRemove(cache, req[w].id)
    /\ staleKeys' = staleKeys \ {req[w].id}
    /\ pc' = [pc EXCEPT ![w] = "patchRespond"]
    /\ readded' = readded \ {w}
    /\ UNCHANGED <<sessions, store, env, req, resp, local, trace, calls, used, staleWorkers>>

\* app.handlePatchList: json.NewEncoder(w).Encode(updated)
PatchRespond(w) ==
    /\ pc[w] = "patchRespond"
    /\ WriteList(w, local[w].list[1], 200)
    /\ local' = [local EXCEPT ![w] = NoLocal]
    /\ UNCHANGED <<sessions, store, cache, env, req, trace, calls, hist>>

\* app.handleGetList: app.ListsCache.Get(id)
HandleGetList(w) ==
    /\ pc[w] = "handleGetList"
    /\ Enter(w)
    /\ LET g == CacheGet(cache, req[w].id)
       IN /\ cache' = g.cache
          /\ IF g.ok
             THEN /\ local' = [local EXCEPT ![w] = [list |-> <<g.val>>, hit |-> TRUE]]
                  /\ pc' = [pc EXCEPT ![w] = "getRespond"]
             ELSE /\ local' = local
                  /\ pc' = [pc EXCEPT ![w] = "getStore"]
    /\ UNCHANGED <<sessions, store, env, req, resp, calls, hist>>

\* handleGetList going on to the cache with the empty record when the read
\* of the store fails.
GetListStoreIgnoresError(w) ==
    /\ pc[w] = "getStore"
    /\ CountList(w)
    /\ LET r == GetShoppingListByID(req[w].id, dbUp)
         IN /\ local' = [local EXCEPT ![w].list = <<r.row>>]
            /\ pc' = [pc EXCEPT ![w] = "getAdd"]
            /\ UNCHANGED resp
    /\ UNCHANGED <<sessions, store, cache, env, req, trace, hist>>

\* app.handleGetList: app.ShoppingListRepository.GetShoppingListByID(id)
GetListStore(w) ==
    /\ pc[w] = "getStore"
    /\ CountList(w)
    /\ LET r == GetShoppingListByID(req[w].id, dbUp)
         IN IF r.err
            THEN /\ HttpError(w, "get shopping list error", 500)
                 /\ UNCHANGED local
            ELSE /\ local' = [local EXCEPT ![w].list = <<r.row>>]
                 /\ pc' = [pc EXCEPT ![w] = "getAdd"]
                 /\ UNCHANGED resp
    /\ UNCHANGED <<sessions, store, cache, env, req, trace, hist>>

\* handleGetList without its app.ListsCache.Add(id, list).
GetListAddSkipped(w) ==
    /\ pc[w] = "getAdd"
    /\ staleWorkers' = staleWorkers \ {w}
    /\ pc' = [pc EXCEPT ![w] = "getRespond"]
    /\ UNCHANGED <<sessions, store, cache, env, req, resp, local, trace, calls,
                   used, staleKeys, readded>>

\* app.handleGetList: app.ListsCache.Add(id, list)
GetListAdd(w) ==
    /\ pc[w] = "getAdd"
    /\ cache' = CacheAdd(cache, req[w].id, local[w].list[1])
    /\ staleKeys' = (IF w \in staleWorkers THEN staleKeys \cup {req[w].id}
                     ELSE staleKeys \ {req[w].id}) \cap CacheKeys(cache')
    /\ staleWorkers' = staleWorkers \ {w}
    /\ readded' = readded \cup {x \in Workers : pc[x] \in RespondStages /\ req[x].id = req[w].id}
    /\ pc' = [pc EXCEPT ![w] = "getRespond"]
    /\ UNCHANGED <<sessions, store, env, req, resp, local, trace, calls, used>>

\* app.handleGetList: json.Marshal, the Etag and the response.
GetListRespond(w) ==
    /\ pc[w] = "getRespond"
    /\ LET data == Marshal(local[w].list[1])
           etag == Etag(data)
       IN IF req[w].inm = etag
          THEN resp' = [resp EXCEPT ![w].status = 304,
                                    ![w].hdr.CacheControl = "no-cache"]
          ELSE resp' = [resp EXCEPT ![w].status = 200,
                                    ![w].hdr.CacheControl = "no-cache",
                                    ![w].hdr.Etag = etag,
                                    ![w].lists = <<data>>]
    /\ pc' = [pc EXCEPT ![w] = "done"]
    /\ local' = [local EXCEPT ![w] = NoLocal]
    /\ UNCHANGED <<sessions, store, cache, env, req, trace, calls, hist>>

\* app.handleListPush
HandleListPush(w) ==
    /\ pc[w] = "handleListPush"
    /\ Enter(w)
    /\ LET data == req[w].body
       IN IF data.bad
          THEN /\ HttpError(w, "invalid data", 400)
               /\ UNCHANGED <<store, calls>>
          ELSE LET r == PushItemToShoppingList(req[w].id, data.item, dbUp)
                 IN /\ ~r.err => Len(r.row.items) <= MaxItems
                    /\ CountList(w)
                    /\ IF r.err
                       THEN /\ HttpError(w, "list not found", 404)
                            /\ UNCHANGED store
                       ELSE /\ store' = r.store
                            /\ WriteList(w, r.row, 200)
    /\ UNCHANGED <<sessions, cache, env, req, local, hist>>

\* ------------------------------------------------------------- requests
BearerOf(token) == Bearer \o <<" ">> \o token

ListBody(name, items) == [NoBody EXCEPT !.name = Some(name), !.items = Some(items)]

Request(route, auth, id, body) ==
    [NoReq EXCEPT !.route = route, !.auth = auth, !.id = id, !.body = body]

AdminToken == Itoa(0)
UserToken == Itoa(1)

\* Sessions of an earlier login of each user.
LoggedIn == {[token |-> AdminToken, username |-> "admin", expires_at |-> SessionTTL],
             [token |-> UserToken, username |-> "user", expires_at |-> SessionTTL]}

\* Concurrent clients of one list: a user that reads it under either spelling
\* of its id, an admin that changes it.
CacheRequests ==
    {Request("get", BearerOf(UserToken), id, NoBody) : id \in {"a", "A"}}
    \cup {Request("update", BearerOf(AdminToken), "a", ListBody("n2", <<>>)),
          Request("patch", BearerOf(AdminToken), "a", [NoBody EXCEPT !.name = Some("n1")]),
          Request("delete", BearerOf(AdminToken), "a", NoBody)}

\* ------------------------------------------------------------- specification
InitWorkers ==
    /\ pc = [w \in Workers |-> "idle"]
    /\ req = [w \in Workers |-> NoReq]
    /\ resp = [w \in Workers |-> NoResp]
    /\ local = [w \in Workers |-> NoLocal]
    /\ trace = [w \in Workers |-> <<>>]
    /\ calls = [w \in Workers |-> NoCalls]

InitLists ==
    /\ store = (10 :> [name |-> "n1", items |-> <<>>])
    /\ used = {10}
    /\ cache = <<>>
    /\ staleKeys = {}
    /\ staleWorkers = {}
    /\ readded = {}

\* The server has started; both users have logged in before.
Init ==
    /\ InitWorkers
    /\ InitLists
    /\ sessions = LoggedIn
    /\ now = 0
    /\ dbUp = TRUE

\* A step of worker w on GET, PUT, PATCH or DELETE /v1/lists/{id}.
CacheStep(w) ==
    \/ EnableCors(w)
    \/ AuthRequired(w)
    \/ AdminRequired(w)
    \/ HandleDeleteList(w)
    \/ DeleteEvict(w)
    \/ DeleteRespond(w)
    \/ HandleUpdateList(w)
    \/ UpdateEvict(w)
    \/ UpdateRespond(w)
    \/ HandlePatchList(w)
    \/ PatchEvict(w)
    \/ PatchRespond(w)
    \/ HandleGetList(w)
    \/ GetListStore(w)
    \/ GetListAdd(w)
    \/ GetListRespond(w)

Next ==
    \/ \E w \in Workers, r \in CacheRequests : Receive(w, r)
    \/ \E w \in Workers : CacheStep(w)

\* Two workers serve reads and changes of one list; the database answers.
Spec == Init /\ [][Next]_vars

\* ------------------------------------------------------------- one client, any header
Tokens == {Itoa(n) : n \in 0 .. (MaxRand - 1)}

LowerBearer == <<"b", "e", "a", "r", "e", "r">>

\* Authorization headers: none, the bare word Bearer, Bearer and a space, and
\* bearer in lower case before a token, and for each token Bearer and a space
\* and Bearer and another character before it.
AuthHeaders ==
    {<<>>, Bearer, BearerOf(<<>>), LowerBearer \o <<" ">> \o Itoa(0)}
    \cup UNION {{BearerOf(t), Bearer \o <<"X">> \o t} : t \in Tokens}

\* The requests on the list routes, sent with Authorization header h.
ListRequestsWith(h) ==
    {Request("create", h, "", ListBody("n1", <<>>)),
     Request("getlists", h, "", NoBody),
     Request("get", h, "a", NoBody),
     Request("update", h, "a", ListBody("n2", <<>>)),
     Request("patch", h, "a", [NoBody EXCEPT !.name = Some("n1")]),
     Request("delete", h, "a", NoBody),
     Request("push", h, "a", [NoBody EXCEPT !.item = "x"])}

LoginRequests ==
    {Request("login", <<>>, "", [NoBody EXCEPT !.username = u, !.password = p]) :
        u \in {"admin", "user", "Admin", "ghost"}, p \in {"password", "wrong"}}
    \cup {Request("login", <<>>, "", [NoBody EXCEPT !.bad = TRUE])}

AuthRequests == LoginRequests \cup UNION {ListRequestsWith(h) : h \in AuthHeaders}

\* The sessions table when the server starts: empty, or one row left by an
\* earlier run, of a user of the table or of a user name the table does not
\* hold, that expires as the server starts.
InitialSessions ==
    {{}} \cup {{[token |-> Itoa(0), username |-> u, expires_at |-> 0]} :
                  u \in {"admin", "user", "ghost"}}

InitAuth ==
    /\ InitWorkers
    /\ InitLists
    /\ sessions \in InitialSessions
    /\ now = 0
    /\ dbUp = TRUE

NextAuth ==
    \/ \E r \in AuthRequests : Receive(W1, r)
    \/ AddCacheHeaders(W1)
    \/ HandleLogin(W1)
    \/ HandleCreateList(W1)
    \/ HandleGetLists(W1)
    \/ HandleListPush(W1)
    \/ CacheStep(W1)
    \/ Tick

\* One worker serves any request of one client after another while time
\* passes.
SpecAuth == InitAuth /\ [][NextAuth]_vars

\* ------------------------------------------------------------- login, then use of the token
LoginThenUseRequests ==
    LoginRequests
    \cup {Request("getlists", BearerOf(t), "", NoBody) : t \in Tokens}
    \cup {Request("delete", BearerOf(t), "a", NoBody) : t \in Tokens}

NextLogin ==
    \/ \E r \in LoginThenUseRequests : Receive(W1, r)
    \/ EnableCors(W1)
    \/ HandleLogin(W1)
    \/ AuthRequired(W1)
    \/ AdminRequired(W1)
    \/ HandleGetLists(W1)
    \/ HandleDeleteList(W1)
    \/ DeleteEvict(W1)
    \/ DeleteRespond(W1)
    \/ Tick
    \/ DbFlip

\* One worker serves logins and requests that carry a token while time passes
\* and the database stops and resumes answering.
SpecLogin == InitAuth /\ [][NextLogin]_vars

\* ------------------------------------------------------------- one admin, any body and id
\* A path id that uuid.Parse rejects.
BadId == "z"

ListIds == {"a", BadId}

\* If-None-Match: absent, or the Etag of a record the list may be or not be.
IfNoneMatchValues ==
    {<<>>} \cup {Etag(Marshal([id |-> 10, name |-> n, items |-> it])) :
                    n \in {"n1", "n2"}, it \in {<<>>, <<"x">>}}

DataRequests ==
    {[Request("get", BearerOf(AdminToken), id, NoBody) EXCEPT !.inm = m] :
        id \in ListIds, m \in IfNoneMatchValues}
    \cup {Request("patch", BearerOf(AdminToken), id, [NoBody EXCEPT !.name = n, !.items = it]) :
             id \in ListIds,
             n \in {NoOpt, Some(""), Some("n2")},
             it \in {NoOptItems, Some(<<>>), Some(<<"x">>)}}
    \cup {Request("update", BearerOf(AdminToken), id, ListBody("n1", <<>>)) : id \in ListIds}
    \cup {Request("delete", BearerOf(AdminToken), id, NoBody) : id \in ListIds}
    \cup {Request("push", BearerOf(AdminToken), id, [NoBody EXCEPT !.item = "x"]) : id \in ListIds}

NextData ==
    \/ \E r \in DataRequests : Receive(W1, r)
    \/ CacheStep(W1)
    \/ HandleListPush(W1)

\* One worker serves an admin's reads and changes of one list, under its id
\* and under a text that is no id; the database answers.
SpecData == Init /\ [][NextData]_vars

\* ------------------------------------------------------------- concurrent pushes
PushRequests ==
    {Request("push", BearerOf(AdminToken), "a", [NoBody EXCEPT !.item = i]) : i \in {"x", "y"}}

PushStep(w) ==
    \/ EnableCors(w)
    \/ AuthRequired(w)
    \/ AdminRequired(w)
    \/ HandleListPush(w)

NextPush ==
    \/ \E w \in Workers, r \in PushRequests : Receive(w, r)
    \/ \E w \in Workers : PushStep(w)

\* Two workers serve pushes to one list.
SpecPush == Init /\ [][NextPush]_vars

\* ------------------------------------------------------------- cross-origin requests
\* Origin: absent, two of the allow-list, one that is not of it.
CorsOrigins == {"", "http://localhost:9000", "http://localhost:3000", "http://other.example"}

\* Access-Control-Request-Headers: absent, allowed names, a name that is not
\* allowed alone and after an allowed one, a name in lower case, a trailing comma.
RequestedHeaders ==
    {<<>>,
     <<"Authorization">>,
     <<"Authorization", ",", " ", "Content-Type">>,
     <<"X-Custom">>,
     <<"Authorization", ",", "X-Custom">>,
     <<"authorization">>,
     <<"Authorization", ",">>}

CorsRequests ==
    {[Request(r.route, r.auth, "", r.body) EXCEPT !.origin = o, !.acrm = m, !.acrh = h] :
        r \in {[route |-> "options", auth |-> <<>>, body |-> NoBody],
               [route |-> "getlists", auth |-> BearerOf(AdminToken), body |-> NoBody],
               [route |-> "login", auth |-> <<>>,
                body |-> [NoBody EXCEPT !.username = "admin", !.password = "wrong"]]},
        o \in CorsOrigins,
        m \in {"", "GET", "TRACE"},
        h \in RequestedHeaders}

NextCors ==
    \/ \E r \in CorsRequests : Receive(W1, r)
    \/ EnableCors(W1)
    \/ MethodNotAllowed(W1)
    \/ AuthRequired(W1)
    \/ HandleGetLists(W1)
    \/ HandleLogin(W1)

\* One worker serves requests and preflights of any origin.
SpecCors == Init /\ [][NextCors]_vars

\* ------------------------------------------------------------- the collection of lists
\* Bodies of a PUT: both fields, no name, no items.
UpdateBodies ==
    {ListBody("n2", <<"x">>),
     [NoBody EXCEPT !.items = Some(<<"x">>)],
     [NoBody EXCEPT !.name = Some("n2")]}

ListsRequests ==
    {Request("create", BearerOf(AdminToken), "", ListBody(n, <<>>)) : n \in {"n1", "n2"}}
    \cup {Request("getlists", BearerOf(UserToken), "", NoBody)}
    \cup {Request("delete", BearerOf(AdminToken), id, NoBody) : id \in {"a", "b"}}
    \cup {Request("update", BearerOf(AdminToken), id, b) : id \in {"a", "b"}, b \in UpdateBodies}

NextLists ==
    \/ \E r \in ListsRequests : Receive(W1, r)
    \/ EnableCors(W1)
    \/ AddCacheHeaders(W1)
    \/ AuthRequired(W1)
    \/ AdminRequired(W1)
    \/ HandleCreateList(W1)
    \/ HandleGetLists(W1)
    \/ HandleDeleteList(W1)
    \/ DeleteEvict(W1)
    \/ DeleteRespond(W1)
    \/ HandleUpdateList(W1)
    \/ UpdateEvict(W1)
    \/ UpdateRespond(W1)

\* One worker serves creations, replacements, deletions and reads of the
\* collection; the database answers.
SpecLists == Init /\ [][NextLists]_vars

\* ------------------------------------------------------------- a full cache
\* The server has answered a GET for each of the further lists, in the order
\* of their ids: the cache lacks two entries to be full.
InitLru ==
    /\ InitWorkers
    /\ store = [u \in {10, 11} \cup MoreUUIDs |-> [name |-> "n1", items |-> <<>>]]
    /\ used = {10, 11} \cup MoreUUIDs
    /\ cache = [i \in 1 .. CacheSize - 2 |->
                   [key |-> ToString(99 + i),
                    val |-> [id |-> 99 + i, name |-> "n1", items |-> <<>>]]]
    /\ staleKeys = {}
    /\ staleWorkers = {}
    /\ readded = {}
    /\ sessions = LoggedIn
    /\ now = 0
    /\ dbUp = TRUE

\* GETs of three lists that are not in the cache, one of them under two
\* spellings of its id, and of the two lists used longest ago, and a DELETE.
LruRequests ==
    {Request("get", BearerOf(UserToken), id, NoBody) : id \in {"a", "A", "b", "100", "101"}}
    \cup {Request("delete", BearerOf(AdminToken), "b", NoBody)}

NextLru ==
    \/ \E r \in LruRequests : Receive(W1, r)
    \/ EnableCors(W1)
    \/ AuthRequired(W1)
    \/ AdminRequired(W1)
    \/ HandleGetList(W1)
    \/ GetListStore(W1)
    \/ GetListAdd(W1)
    \/ GetListRespond(W1)
    \/ HandleDeleteList(W1)
    \/ DeleteEvict(W1)
    \/ DeleteRespond(W1)

\* One worker serves GETs and a DELETE on a cache that is nearly full.
SpecLru == InitLru /\ [][NextLru]_vars

\* ------------------------------------------------------------- store failures
\* One well-formed request per list route, from the admin.
FailRequests ==
    {Request("get", BearerOf(AdminToken), "a", NoBody),
     Request("getlists", BearerOf(AdminToken), "", NoBody),
     Request("create", BearerOf(AdminToken), "", ListBody("n2", <<>>)),
     Request("update", BearerOf(AdminToken), "a", ListBody("n2", <<"x">>)),
     Request("patch", BearerOf(AdminToken), "a", [NoBody EXCEPT !.name = Some("n2")]),
     Request("delete", BearerOf(AdminToken), "a", NoBody),
     Request("push", BearerOf(AdminToken), "a", [NoBody EXCEPT !.item = "x"])}

NextFail ==
    \/ \E r \in FailRequests : Receive(W1, r)
    \/ AddCacheHeaders(W1)
    \/ HandleCreateList(W1)
    \/ HandleGetLists(W1)
    \/ HandleListPush(W1)
    \/ CacheStep(W1)
    \/ DbFlip

\* One worker serves every list route while the database stops and resumes
\* answering within the deadline of a call.
SpecFail == Init /\ [][NextFail]_vars

\* ------------------------------------------------------------- properties
Mutations == {"update", "patch", "delete"}

\* No request is being served.
Quiescent == \A w \in Workers : pc[w] \in {"idle", "done", "panicked"}

\* Worker w writes the response of a PUT, PATCH or DELETE whose store
\* operation has succeeded.
MutationResponds(w) == pc[w] \in RespondStages /\ pc'[w] = "done"

\* C1, in its strong form: right after the response of a successful PUT, PATCH or
\* DELETE on id X is sent, the cache holds no entry for X.
C1_NoEntryAfterResponse ==
    [][\A w \in Workers :
         MutationResponds(w) => req[w].id \notin CacheKeys(cache')]_vars

\* C1: the handler removes X from the cache after its store operation
\* and before it writes the response (right after the Remove the cache holds
\* no entry for X), and right after the response is sent the cache holds no
\* entry for X unless a GET of X has called Add since the Remove.
C1_EvictsBeforeResponse ==
    [][\A w \in Workers :
         /\ (pc[w] \in EvictStages /\ pc'[w] # pc[w])
               => /\ pc'[w] \in RespondStages
                  /\ resp'[w].status = 0
                  /\ req[w].id \notin CacheKeys(cache')
         /\ (MutationResponds(w) /\ w \notin readded)
               => req[w].id \notin CacheKeys(cache')
         /\ pc'[w] \in RespondStages => pc[w] \in EvictStages \cup RespondStages]_vars

\* C1 witness: a PUT on an id that was cached has been answered, and the
\* cache holds no entry for the id.
C1_Witness ==
    \E w \in Workers :
        /\ pc[w] = "done" /\ req[w].route = "update" /\ resp[w].status = 200
        /\ w \notin readded
        /\ req[w].id \notin CacheKeys(cache)
        /\ \E x \in Workers \ {w} :
             /\ pc[x] = "done" /\ req[x].route = "get" /\ req[x].id = req[w].id
             /\ resp[x].status = 200
             /\ resp[x].lists # resp[w].lists

\* C2: when no request is in flight, the cache holds no entry that was read
\* from the store before a successful PUT, PATCH or DELETE of its list: a GET
\* started then is never answered with a snapshot older than that mutation.
C2_NoStaleEntryAtRest == Quiescent => staleKeys = {}

\* C3: a GET that misses reads the List Store exactly once and puts the
\* record it read into the cache under its id; a GET that finds its id in the
\* cache is answered with the cached record and no List Store call; an entry
\* leaves the cache, or changes, only by the Remove of a mutation of that id
\* or the Add of a GET of that id.
C3_GetPopulatesThenHits ==
    [][\A w \in Workers :
         /\ (pc[w] = "getAdd" /\ pc'[w] # pc[w])
               => /\ calls[w].list = 1
                  /\ CacheGet(cache', req[w].id).ok
                  /\ CacheGet(cache', req[w].id).val = local[w].list[1]
         /\ (pc[w] = "handleGetList" /\ pc'[w] # pc[w])
               => IF req[w].id \in CacheKeys(cache)
                  THEN /\ pc'[w] = "getRespond"
                       /\ local'[w].list = <<CacheGet(cache, req[w].id).val>>
                       /\ calls'[w].list = 0
                  ELSE pc'[w] = "getStore"
         /\ (pc[w] = "getRespond" /\ pc'[w] # pc[w])
               => /\ calls[w].list = (IF local[w].hit THEN 0 ELSE 1)
                  /\ resp'[w].status = 200
                  /\ resp'[w].lists = <<Marshal(local[w].list[1])>>
         /\ \A k \in CacheKeys(cache) :
               (k \notin CacheKeys(cache') \/ CacheGet(cache', k).val # CacheGet(cache, k).val)
               => \E x \in Workers :
                     /\ req[x].id = k
                     /\ pc[x] \in EvictStages \cup {"getAdd"}
                     /\ pc'[x] # pc[x]]_vars

\* C3 witness: a GET has been answered from the cache without a store call
\* after another GET of the same id read the store once.
C3_Witness ==
    \E w \in Workers, x \in Workers :
        /\ pc[w] = "done" /\ req[w].route = "get" /\ resp[w].status = 200
        /\ calls[w].list = 0
        /\ pc[x] = "done" /\ req[x].route = "get" /\ req[x].id = req[w].id
        /\ resp[x].status = 200 /\ calls[x].list = 1
        /\ resp[x].lists = resp[w].lists

\* ------------------------------------------------------------- properties of the middleware
\* The handler of the route has been entered for the request worker w serves.
Invoked(w) == \E i \in 1 .. Len(trace[w]) : trace[w][i] \in Handlers

AdminRoutes == {"update", "patch", "delete", "push"}

BearerSpace == <<"B", "e", "a", "r", "e", "r", " ">>

\* The session rows whose token is what follows the first seven characters of
\* header h.
RowsFor(h) == {s \in sessions : Len(h) >= 7 /\ s.token = SubSeq(h, 8, Len(h))}

IsAdmin(name) == name \in DOMAIN allUsers /\ allUsers[name].Role = "admin"

\* C4: the create handler runs, and a list is created, only for a request
\* whose bearer token resolves to a session of a user with role admin.
C4_CreateOnlyByAdmin ==
    \A w \in Workers :
        (req[w].route = "create" /\ Invoked(w))
            => \E s \in RowsFor(req[w].auth) : IsAdmin(s.username)

\* The request worker w serves is on an admin-required route and its token
\* is that of a session of a user of the table whose role is not admin.
NonAdminOnAdminRoute(w) ==
    /\ req[w].route \in AdminRoutes
    /\ RowsFor(req[w].auth) # {}
    /\ \A s \in RowsFor(req[w].auth) :
          s.username \in DOMAIN allUsers /\ allUsers[s.username].Role # "admin"

\* C5: on an admin-required route a request whose session resolves to a user
\* whose role is not admin is answered 403 forbidden by adminRequired, no step
\* of it enters the handler, and no step of it changes the List Store or the
\* cache.
C5_NonAdminForbidden ==
    [][\A w \in Workers :
         (NonAdminOnAdminRoute(w) /\ pc'[w] # pc[w] /\ req'[w] = req[w])
            => /\ pc'[w] \notin Handlers
               /\ ~Invoked(w)'
               /\ store' = store /\ cache' = cache
               /\ (pc[w] = "adminRequired" /\ dbUp)
                     => /\ pc'[w] = "done"
                        /\ resp'[w].status = 403
                        /\ resp'[w].text = "forbidden"]_vars

\* C5 witness: a DELETE with the token of a session of the user with role
\* user has been answered 403 while the list it names is in the store and in
\* the cache.
C5_Witness ==
    /\ pc[W1] = "done" /\ req[W1].route = "delete"
    /\ \E s \in RowsFor(req[W1].auth) : s.username = "user"
    /\ resp[W1].status = 403
    /\ ParseUUID(req[W1].id).v \in DOMAIN store
    /\ req[W1].id \in CacheKeys(cache)

\* The header starts with "Bearer " and a session matches the token after it.
SessionMatches(h) == HasPrefix(h, BearerSpace) /\ RowsFor(h) # {}

\* C6: once authRequired has run for a request, the request has been answered
\* 401 with nothing after authRequired entered unless its header starts with
\* "Bearer " and a session matches the token that follows.
C6_UnauthorizedUnlessSessionMatches ==
    \A w \in Workers :
        ("authRequired" \in {trace[w][i] : i \in 1 .. Len(trace[w])}
            /\ ~SessionMatches(req[w].auth))
        => /\ pc[w] = "done"
           /\ resp[w].status = 401
           /\ trace[w][Len(trace[w])] = "authRequired"

\* C7: authRequired rejects a request whose token matches a session whose
\* expires_at is in the past: it answers 401 and goes no further.
C7_ExpiredSessionRejected ==
    [][\A w \in Workers :
         (/\ pc[w] = "authRequired" /\ pc'[w] # pc[w]
          /\ \E s \in RowsFor(req[w].auth) : s.expires_at < now)
         => /\ pc'[w] = "done"
            /\ resp'[w].status = 401]_vars

\* The credentials of the login worker w serves are those of an entry of the
\* user table.
LoginMatches(w) ==
    /\ req[w].route = "login" /\ ~req[w].body.bad
    /\ req[w].body.username \in DOMAIN allUsers
    /\ allUsers[req[w].body.username].Password = req[w].body.password

\* Worker w's login step creates one session for the user, of 7 days, and
\* answers 200 with its token.
LoginSucceeds(w) ==
    \E row \in sessions' \ sessions :
        /\ sessions' = sessions \cup {row}
        /\ row.username = req[w].body.username
        /\ row.expires_at = now + SessionTTL
        /\ row.token # <<>>
        /\ \A s \in sessions : s.token # row.token
        /\ resp'[w].status = 200
        /\ resp'[w].token = row.token
        /\ pc'[w] = "done"

C9_UnknownUserForbidden ==
    [][\A w \in Workers :
         (/\ pc[w] = "adminRequired" /\ pc'[w] # pc[w] /\ dbUp
          /\ \E s \in RowsFor(req[w].auth) : s.username \notin DOMAIN allUsers)
         => /\ pc'[w] = "done"
            /\ resp'[w].status = 403]_vars

\* C10: a login whose credentials match no entry of the user table is
\* answered 401 with one and the same response, whether the username is
\* unknown or the password is wrong, without a call of the Session Store, and
\* leaves the sessions as they are.
C10_FailedLoginSameResponse ==
    [][\A w \in Workers :
         (/\ pc[w] = "handleLogin" /\ pc'[w] # pc[w]
          /\ ~req[w].body.bad /\ ~LoginMatches(w))
         => /\ resp'[w] = [NoResp EXCEPT
                              !.status = 401, !.text = "invalid credentials",
                              !.hdr.Vary = <<"Origin", "Access-Control-Request-Method">>]
            /\ pc'[w] = "done"
            /\ calls'[w].session = 0
            /\ sessions' = sessions]_vars

\* C10 witness: a login with the password of no user under a user's name has
\* been answered 401 while a session of an earlier login is in the store.
C10_Witness ==
    /\ pc[W1] = "done" /\ req[W1].route = "login" /\ resp[W1].status = 401
    /\ req[W1].body.username = "admin" /\ req[W1].body.password = "wrong"
    /\ \E s \in sessions : s.expires_at >= SessionTTL

\* ------------------------------------------------------------- properties of the data
\* The digest of a serialized record, one per record.
DigestOf(rec) == <<Marshal(rec)>>

\* C11: a GET that serves a record answers 304 with an empty body when its
\* If-None-Match is the digest of the serialized record, and else 200 with
\* the serialized record as the body and that digest as the Etag; a GET
\* without If-None-Match is answered 200.
C11_ConditionalGet ==
    [][\A w \in Workers :
         (pc[w] = "getRespond" /\ pc'[w] # pc[w])
            => LET rec == local[w].list[1]
               IN /\ pc'[w] = "done"
                  /\ req[w].inm = <<>> => resp'[w].status = 200
                  /\ IF req[w].inm = DigestOf(rec)
                     THEN /\ resp'[w].status = 304
                          /\ resp'[w].lists = <<>>
                          /\ resp'[w].text = ""
                     ELSE /\ resp'[w].status = 200
                          /\ resp'[w].lists = <<Marshal(rec)>>
                          /\ resp'[w].hdr.Etag = DigestOf(rec)]_vars

\* C11 witness: a GET whose If-None-Match is the digest of the list that is
\* in the store and in the cache, a list that is not the first one, has been
\* answered 304 with an empty body.
C11_Witness ==
    /\ pc[W1] = "done" /\ req[W1].route = "get" /\ resp[W1].status = 304
    /\ resp[W1].lists = <<>>
    /\ 10 \in DOMAIN store
    /\ store[10].name = "n2"
    /\ req[W1].inm = DigestOf(Row(store, 10))
    /\ CacheGet(cache, req[W1].id).ok
    /\ CacheGet(cache, req[W1].id).val = Row(store, 10)

\* Worker w's step is the store call of a PATCH, and it succeeds.
PatchSucceeds(w) == pc[w] = "handlePatchList" /\ pc'[w] = "patchEvict"

\* The row a path id names.
RowId(id) == ParseUUID(id).v

\* Every row but row u is as it was.
OthersKept(u) ==
    /\ DOMAIN store' = DOMAIN store
    /\ \A x \in DOMAIN store \ {u} : store'[x] = store[x]

\* C12: a successful PATCH whose body has items and no name leaves the stored
\* name as it was and makes the stored items the given sequence, the empty
\* one included; the response shows the row so written.
C12_PatchItemsOnly ==
    [][\A w \in Workers :
         (/\ PatchSucceeds(w)
          /\ req[w].body.items.some /\ ~req[w].body.name.some)
         => LET u == RowId(req[w].id)
            IN /\ u \in DOMAIN store
               /\ store'[u].name = store[u].name
               /\ store'[u].items = req[w].body.items.v
               /\ OthersKept(u)
               /\ local'[w].list = <<Row(store', u)>>]_vars

\* C12 witness: a PATCH with the empty items and no name has been answered
\* with the list, whose name an earlier PATCH made and whose items are empty.
C12_Witness ==
    /\ pc[W1] = "done" /\ req[W1].route = "patch" /\ resp[W1].status = 200
    /\ ~req[W1].body.name.some
    /\ req[W1].body.items = Some(<<>>)
    /\ store[10] = [name |-> "n2", items |-> <<>>]
    /\ resp[W1].lists = <<Marshal(Row(store, 10))>>

PushSucceeds(w) == pc[w] = "handleListPush" /\ pc'[w] = "done" /\ resp'[w].status = 200

\* C14: under every interleaving of two workers, a successful push leaves
\* the items that were stored, in their order, followed by its item, and
\* answers with them; nothing but a successful push changes the stored items;
\* so the items a push was answered with, which end with its item, stay the
\* first of the stored items whatever pushes follow: none is lost.
C14_PushAppendsAtomically ==
    [][/\ \A w \in Workers :
            PushSucceeds(w)
            => LET u == RowId(req[w].id)
               IN /\ u \in DOMAIN store
                  /\ store'[u].items = Append(store[u].items, req[w].body.item)
                  /\ store'[u].name = store[u].name
                  /\ OthersKept(u)
                  /\ resp'[w].lists = <<Marshal(Row(store', u))>>
       /\ store' # store => \E w \in Workers : PushSucceeds(w)
       /\ \A w \in Workers :
            (pc'[w] = "done" /\ resp'[w].status = 200)
            => LET answered == resp'[w].lists[1].items
                   stored == store'[RowId(req'[w].id)].items
               IN /\ answered # <<>>
                  /\ answered[Len(answered)] = req'[w].body.item
                  /\ Len(answered) <= Len(stored)
                  /\ SubSeq(stored, 1, Len(answered)) = answered]_vars

\* C14 witness: both workers have been answered 200 for pushes of two
\* different items, and the stored items are the two.
C14_Witness ==
    /\ \A w \in Workers : pc[w] = "done" /\ resp[w].status = 200
    /\ req[W1].body.item = "x" /\ req[W2].body.item = "y"
    /\ store[10].items = <<"y", "x">>
    /\ resp[W2].lists = <<Marshal([id |-> 10, name |-> "n1", items |-> <<"y">>])>>

\* ------------------------------------------------------------- properties of enableCors
TrustedOriginSet == {"http://localhost:9000", "http://localhost:9002", "http://localhost:3000"}
AllowedMethodSet == {"GET", "POST", "PUT", "PATCH", "DELETE", "OPTIONS"}
AllowedHeaderSet == {<<"Authorization">>, <<"Content-Type">>}

\* enableCors has run for the request worker w serves.
CorsDone(w) == Len(trace[w]) >= 1 /\ trace[w][1] = "enableCors"

\* Worker w's step is that of enableCors.
CorsStep(w) == pc[w] = "enableCors" /\ pc'[w] # pc[w]

\* The request worker w serves is a preflight from a trusted origin.
TrustedPreflight(w) ==
    /\ req[w].origin \in TrustedOriginSet
    /\ MethodOf[req[w].route] = "OPTIONS"
    /\ req[w].acrm # ""

\* The names Access-Control-Request-Headers h asks for: split at the commas, trimmed.
RequestedNames(h) ==
    IF h = <<>> THEN {}
    ELSE {TrimSpace(Split(h, ",")[i]) : i \in 1 .. Len(Split(h, ","))}

\* The response of worker w in the next state has none of the headers that
\* answer a preflight.
NoPreflightHeaders(w) ==
    /\ resp'[w].hdr.AllowMethods = ""
    /\ resp'[w].hdr.AllowHeaders = ""
    /\ resp'[w].hdr.MaxAge = ""

\* enableCors answers worker w's request with the status and goes no further.
AnsweredByCors(w, status) ==
    /\ pc'[w] = "done"
    /\ resp'[w].status = status
    /\ trace'[w] = <<"enableCors">>

\* C15: once enableCors has run, and so in the response, Access-Control-Allow-Origin
\* is absent for an origin that is not of the allow-list and is the
\* origin for one that is, whether the request is a preflight or not.
C15_AllowOriginOnlyForTrusted ==
    \A w \in Workers :
        CorsDone(w)
        => resp[w].hdr.AllowOrigin =
              (IF req[w].origin \in TrustedOriginSet THEN req[w].origin ELSE "")

\* C15 witness: a GET of the lists from a trusted origin has been answered
\* 200 with that origin allowed.
C15_Witness ==
    /\ pc[W1] = "done" /\ req[W1].route = "getlists" /\ resp[W1].status = 200
    /\ req[W1].origin = "http://localhost:3000"
    /\ resp[W1].hdr.AllowOrigin = "http://localhost:3000"

\* C16, in its strong form: a preflight from a trusted origin that asks for
\* a header that is not allowed is answered 403 by enableCors, without
\* Allow-Methods, Allow-Headers and Max-Age, and goes no further.
C16_DisallowedHeaderForbidden ==
    [][\A w \in Workers :
         (/\ CorsStep(w) /\ TrustedPreflight(w)
          /\ RequestedNames(req[w].acrh) \ AllowedHeaderSet # {})
         => AnsweredByCors(w, 403) /\ NoPreflightHeaders(w)]_vars

\* C16: a preflight from a trusted origin whose requested method is allowed
\* and that asks for a header that is not allowed is answered 403 by
\* enableCors, without Allow-Methods, Allow-Headers and Max-Age but with
\* Allow-Origin, and goes no further.
C16_DisallowedHeaderForbiddenAfterMethod ==
    [][\A w \in Workers :
         (/\ CorsStep(w) /\ TrustedPreflight(w)
          /\ req[w].acrm \in AllowedMethodSet
          /\ RequestedNames(req[w].acrh) \ AllowedHeaderSet # {})
         => /\ AnsweredByCors(w, 403)
            /\ NoPreflightHeaders(w)
            /\ resp'[w].hdr.AllowOrigin = req[w].origin]_vars

\* C16 witness: a preflight that asks for an allowed header and one that is
\* not has been answered 403 by enableCors.
C16_Witness ==
    /\ pc[W1] = "done" /\ resp[W1].status = 403
    /\ trace[W1] = <<"enableCors">>
    /\ req[W1].acrm = "GET"
    /\ req[W1].acrh = <<"Authorization", ",", "X-Custom">>
    /\ resp[W1].hdr.AllowMethods = ""

\* C17: a preflight from a trusted origin whose requested method and headers
\* are allowed is answered 200 by enableCors with Allow-Methods,
\* Allow-Headers and Max-Age 300, and goes no further; a request that is no
\* preflight from a trusted origin goes on to the inner handler, which is
\* entered from enableCors only, once for a request.
C17_PreflightAnswered ==
    [][\A w \in Workers :
         /\ (/\ CorsStep(w) /\ TrustedPreflight(w)
             /\ req[w].acrm \in AllowedMethodSet
             /\ RequestedNames(req[w].acrh) \subseteq AllowedHeaderSet)
            => /\ AnsweredByCors(w, 200)
               /\ resp'[w].hdr.AllowMethods = "GET, POST, PUT, PATCH, DELETE, OPTIONS"
               /\ resp'[w].hdr.AllowHeaders = "Authorization, Content-Type"
               /\ resp'[w].hdr.MaxAge = "300"
         /\ (CorsStep(w) /\ ~TrustedPreflight(w))
            => /\ pc'[w] = Chain[req[w].route][2]
               /\ resp'[w].status = 0
               /\ NoPreflightHeaders(w)
         /\ (pc'[w] # pc[w] /\ pc'[w] = Chain[req'[w].route][2])
            => /\ CorsStep(w)
               /\ trace'[w] = <<"enableCors">>]_vars

\* C17 witness: a preflight that asks for the two allowed headers has been
\* answered 200 by enableCors.
C17_Witness ==
    /\ pc[W1] = "done" /\ resp[W1].status = 200
    /\ trace[W1] = <<"enableCors">>
    /\ req[W1].route = "options"
    /\ req[W1].acrh = <<"Authorization", ",", " ", "Content-Type">>
    /\ resp[W1].hdr.MaxAge = "300"

\* C18: a preflight from a trusted origin whose requested method is not
\* allowed is answered 405 by enableCors, without Allow-Methods,
\* Allow-Headers and Max-Age, and goes no further, also when it asks for a
\* header that is not allowed: the method is checked first.
C18_DisallowedMethodRejected ==
    [][\A w \in Workers :
         (/\ CorsStep(w) /\ TrustedPreflight(w)
          /\ req[w].acrm \notin AllowedMethodSet)
         => AnsweredByCors(w, 405) /\ NoPreflightHeaders(w)]_vars

\* C18 witness: a preflight for a method that is not allowed and a header
\* that is not allowed has been answered 405 by enableCors.
C18_Witness ==
    /\ pc[W1] = "done" /\ resp[W1].status = 405
    /\ trace[W1] = <<"enableCors">>
    /\ req[W1].acrm = "TRACE"
    /\ req[W1].acrh = <<"X-Custom">>
    /\ resp[W1].hdr.AllowMethods = ""

\* C19: enableCors adds the two Vary values for every request, and passes a
\* request without Origin on to the inner handler with no other header added
\* and nothing written, whatever its method; its response has no allow header.
C19_NoOriginPassesThrough ==
    [][\A w \in Workers :
         /\ CorsStep(w)
            => resp'[w].hdr.Vary = resp[w].hdr.Vary \o <<"Origin", "Access-Control-Request-Method">>
         /\ (CorsStep(w) /\ req[w].origin = "")
            => /\ pc'[w] = Chain[req[w].route][2]
               /\ resp'[w] = [resp[w] EXCEPT !.hdr.Vary = resp'[w].hdr.Vary]
         /\ (req'[w].origin = "" /\ req'[w].route # "none")
            => /\ resp'[w].hdr.AllowOrigin = ""
               /\ NoPreflightHeaders(w)]_vars

\* C19 witness: an OPTIONS request with Access-Control-Request-Method and no
\* Origin has gone through enableCors to the mux with the two Vary values
\* and no allow header.
C19_Witness ==
    /\ pc[W1] = "done" /\ req[W1].route = "options" /\ req[W1].origin = ""
    /\ req[W1].acrm = "GET"
    /\ trace[W1] = <<"enableCors", "methodNotAllowed">>
    /\ resp[W1].hdr.Vary = <<"Origin", "Access-Control-Request-Method">>
    /\ resp[W1].hdr.AllowOrigin = ""

\* ------------------------------------------------------------- properties of the ids
SingleItemRoutes == {"get", "update", "patch", "delete", "push"}

\* C20: a request on a single-item route whose id is no UUID is answered with
\* a status of the 400s, never one of the 500s.
C20_BadIdClientError ==
    \A w \in Workers :
        (/\ pc[w] = "done"
         /\ req[w].route \in SingleItemRoutes
         /\ ~ParseUUID(req[w].id).ok)
        => resp[w].status \in 400 .. 499

\* ------------------------------------------------------------- properties of the collection
\* Worker w's step is the store call of a DELETE, and it succeeds.
DeleteSucceeds(w) == pc[w] = "handleDeleteList" /\ pc'[w] = "deleteEvict"

\* C21: a POST /v1/lists answered 201 has added one row under an id the
\* store had not handed out, with the name and items of the body, and
\* carries that row; a GET /v1/lists answered 200 carries every row of the
\* store and nothing else; a row leaves the store only by a successful
\* DELETE of its id.
C21_CreatedListIsListed ==
    [][\A w \in Workers :
         /\ (pc[w] = "handleCreateList" /\ pc'[w] = "done" /\ resp'[w].status = 201)
            => \E u \in DOMAIN store' \ DOMAIN store :
                  /\ u \notin used
                  /\ DOMAIN store' = DOMAIN store \cup {u}
                  /\ \A x \in DOMAIN store : store'[x] = store[x]
                  /\ store'[u] = [name |-> req[w].body.name.v, items |-> req[w].body.items.v]
                  /\ resp'[w].lists = <<Marshal(Row(store', u))>>
         /\ (pc[w] = "handleCreateList" /\ pc'[w] # pc[w] /\ resp'[w].status # 201)
            => store' = store
         /\ (pc[w] = "handleGetLists" /\ pc'[w] = "done" /\ resp'[w].status = 200)
            => /\ {resp'[w].lists[i] : i \in 1 .. Len(resp'[w].lists)}
                     = {Row(store, u) : u \in DOMAIN store}
               /\ Len(resp'[w].lists) = Cardinality(DOMAIN store)
         /\ \A u \in DOMAIN store \ DOMAIN store' :
               \E x \in Workers : DeleteSucceeds(x) /\ RowId(req[x].id) = u]_vars

\* C21 witness: a GET /v1/lists has been answered with two lists, one of
\* them under the id a POST was given.
C21_Witness ==
    /\ pc[W1] = "done" /\ req[W1].route = "getlists" /\ resp[W1].status = 200
    /\ Len(resp[W1].lists) = 2
    /\ \E i \in 1 .. 2 : resp[W1].lists[i].id = 11 /\ resp[W1].lists[i].name = "n2"
    /\ 11 \in DOMAIN store

\* The number of times a stage occurs in the stages worker w has entered.
Entered(w, stage) == Cardinality({i \in 1 .. Len(trace[w]) : trace[w][i] = stage})

\* C22: the step of addCacheHeaders leaves Cache-Control at
\* "public, max-age=300" and Expires non-empty with no status written yet,
\* and hands the request to the wrapped handler, which had not been entered
\* for this request; the wrapped handler of the route is entered from
\* addCacheHeaders only.
C22_CacheHeadersThenHandlerOnce ==
    [][\A w \in Workers :
         /\ (pc[w] = "addCacheHeaders" /\ pc'[w] # pc[w])
            => /\ resp'[w].hdr.CacheControl = "public, max-age=300"
               /\ resp'[w].hdr.Expires # ""
               /\ resp'[w].status = 0
               /\ pc'[w] = "authRequired"
               /\ Entered(w, "authRequired") = 0
               /\ Entered(w, "addCacheHeaders") = 0
         /\ (req'[w].route = "create" /\ pc'[w] = "authRequired" /\ pc[w] # "authRequired")
            => pc[w] = "addCacheHeaders"
         /\ (req[w].route = "create" /\ pc[w] \in {"authRequired", "handleCreateList"})
            => /\ resp[w].hdr.CacheControl = "public, max-age=300"
               /\ resp[w].hdr.Expires # ""
               /\ Entered(w, "addCacheHeaders") = 1]_vars

\* C22 witness: a POST /v1/lists went through addCacheHeaders once and was
\* answered 201 with both headers on the response.
C22_Witness ==
    /\ pc[W1] = "done" /\ req[W1].route = "create" /\ resp[W1].status = 201
    /\ Entered(W1, "addCacheHeaders") = 1
    /\ Entered(W1, "authRequired") = 1
    /\ resp[W1].hdr.CacheControl = "public, max-age=300"
    /\ resp[W1].hdr.Expires # ""

\* Worker w's step is the store call of a PUT, and it succeeds.
UpdateSucceeds(w) == pc[w] = "handleUpdateList" /\ pc'[w] = "updateEvict"

\* C23: a successful PUT leaves the row with the name and the items of the
\* body, "" and no items for a field the body lacks, keeps every other row,
\* and is answered 200 with the row; a successful DELETE removes the row
\* and nothing else and is answered 204; an id that left the store is never
\* given to a row again, and GET /v1/lists carries rows of the store only.
C23_PutReplacesDeleteRemoves ==
    [][\A w \in Workers :
         /\ UpdateSucceeds(w)
            => LET u == RowId(req[w].id)
                   b == req[w].body
               IN /\ u \in DOMAIN store
                  /\ DOMAIN store' = DOMAIN store
                  /\ store'[u].name = (IF b.name.some THEN b.name.v ELSE "")
                  /\ store'[u].items = (IF b.items.some THEN b.items.v ELSE <<>>)
                  /\ OthersKept(u)
                  /\ local'[w].list = <<Row(store', u)>>
         /\ (pc[w] = "updateRespond" /\ pc'[w] = "done")
            => resp'[w].status = 200 /\ resp'[w].lists = local[w].list
         /\ DeleteSucceeds(w)
            => /\ DOMAIN store' = DOMAIN store \ {RowId(req[w].id)}
               /\ \A x \in DOMAIN store' : store'[x] = store[x]
         /\ (pc[w] = "deleteRespond" /\ pc'[w] = "done")
            => resp'[w].status = 204 /\ RowId(req[w].id) \notin DOMAIN store
         /\ (req[w].route = "delete" /\ resp'[w].status = 204 /\ resp[w].status # 204)
            => pc[w] = "deleteRespond"
         /\ \A u \in DOMAIN store' \ DOMAIN store : u \notin used
         /\ (pc[w] = "handleGetLists" /\ pc'[w] = "done" /\ resp'[w].status = 200)
            => \A i \in 1 .. Len(resp'[w].lists) : resp'[w].lists[i].id \in DOMAIN store]_vars

\* C23 witness: a PUT whose body has no name was answered 200 and the row
\* has the empty name and the items of the body, after the list a POST
\* created was deleted.
C23_Witness ==
    /\ pc[W1] = "done" /\ req[W1].route = "update" /\ resp[W1].status = 200
    /\ ~req[W1].body.name.some
    /\ 10 \in DOMAIN store
    /\ store[10] = [name |-> "", items |-> <<"x">>]
    /\ resp[W1].lists = <<Row(store, 10)>>
    /\ 11 \in used \ DOMAIN store

\* Worker w's step is a List Store call that fails: the database does not
\* answer within the deadline of the call.
StoreCallFails(w) ==
    /\ req'[w] = req[w]
    /\ calls'[w].list = calls[w].list + 1
    /\ ~dbUp

\* C24: a List Store call that fails on its deadline ends the request with
\* status 500, on every route, and a request makes at most one List Store
\* call.
C24_StoreFailureIs500 ==
    [][\A w \in Workers :
         /\ StoreCallFails(w) => pc'[w] = "done" /\ resp'[w].status = 500
         /\ calls'[w].list <= 1]_vars

\* The same for the routes other than PATCH and push.
C24_StoreFailureIs500ButPatchPush ==
    [][\A w \in Workers :
         /\ (StoreCallFails(w) /\ req[w].route \notin {"patch", "push"})
            => pc'[w] = "done" /\ resp'[w].status = 500
         /\ (StoreCallFails(w) /\ req[w].route \in {"patch", "push"})
            => pc'[w] = "done" /\ resp'[w].status = 404
         /\ StoreCallFails(w) => store' = store /\ cache' = cache
         /\ calls'[w].list <= 1]_vars

\* Worker w's step is a lookup of the session of its token, in authRequired
\* or in adminRequired, and the lookup returns an error.
SessionLookupFails(w) ==
    /\ pc[w] \in {"authRequired", "adminRequired"}
    /\ req'[w] = req[w]
    /\ calls'[w].session = calls[w].session + 1
    /\ GetSessionByToken(SliceFrom7(req[w].auth).v, dbUp).err

\* C25: a session lookup that returns an error, for a missing row or for a
\* database that does not answer, in authRequired or in adminRequired, ends
\* the request with 401 and changes nothing; a request leaves either
\* middleware for the function it wraps only after a lookup without error.
C25_FailClosed ==
    [][\A w \in Workers :
         /\ SessionLookupFails(w)
            => /\ pc'[w] = "done"
               /\ resp'[w].status = 401
               /\ store' = store /\ cache' = cache /\ sessions' = sessions
         /\ (pc[w] \in {"authRequired", "adminRequired"}
               /\ pc'[w] \notin {pc[w], "done", "panicked"}
               /\ req'[w] = req[w])
            => /\ calls'[w].session = calls[w].session + 1
               /\ ~GetSessionByToken(SliceFrom7(req[w].auth).v, dbUp).err]_vars

\* C25 witness: the admin's request passed authRequired, then the database
\* stopped answering and adminRequired answered 401 for a session that is
\* in the table.
C25_Witness ==
    /\ pc[W1] = "done" /\ resp[W1].status = 401
    /\ trace[W1] = <<"enableCors", "authRequired", "adminRequired">>
    /\ ~dbUp
    /\ ~GetSessionByToken(SliceFrom7(req[W1].auth).v, TRUE).err
    /\ calls[W1].session = 2

\* C26: a request that carries a token makes one lookup of the session of
\* its token: its handler is entered after exactly one lookup and no request
\* makes a second one.
C26_OneSessionReadPerRequest ==
    \A w \in Workers :
        /\ calls[w].session <= 1
        /\ (Invoked(w) /\ req[w].route # "login") => calls[w].session = 1

\* The same with the second lookup of adminRequired counted: one lookup on
\* the routes without adminRequired, two on the routes with it, and a session
\* a login added is found by the lookups of the requests after it.
C26_OneSessionReadPerMiddleware ==
    \A w \in Workers :
        /\ calls[w].session <= 2
        /\ (Invoked(w) /\ req[w].route # "login")
            => calls[w].session = (IF req[w].route \in AdminRoutes THEN 2 ELSE 1)
        /\ (Invoked(w) /\ req[w].route # "login") => RowsFor(req[w].auth) # {}

\* ------------------------------------------------------------- properties of the cache
\* C27: the cache holds at most 128 entries under distinct keys.  A hit of
\* a GET makes its entry the most recently used and keeps the order of the
\* others; an insert on a miss makes the new entry the most recently used
\* and keeps the order of the others, and when the cache was full it evicts
\* exactly the entry used longest ago; a removal keeps the order of the
\* others.
C27_LruBounded ==
    [][/\ Len(cache') <= CacheSize
       /\ Cardinality(CacheKeys(cache')) = Len(cache')
       /\ \A w \in Workers :
            LET k == req[w].id
            IN /\ (pc[w] = "handleGetList" /\ pc'[w] = "getRespond")
                  => /\ k \in CacheKeys(cache)
                     /\ Len(cache') = Len(cache)
                     /\ cache'[Len(cache')] = cache[CacheIndex(cache, k)]
                     /\ SubSeq(cache', 1, Len(cache') - 1) = Without(cache, k)
               /\ (pc[w] = "handleGetList" /\ pc'[w] = "getStore")
                  => k \notin CacheKeys(cache) /\ cache' = cache
               /\ (pc[w] = "getAdd" /\ pc'[w] = "getRespond" /\ k \notin CacheKeys(cache))
                  => /\ cache'[Len(cache')] = [key |-> k, val |-> local[w].list[1]]
                     /\ SubSeq(cache', 1, Len(cache') - 1)
                           = (IF Len(cache) = CacheSize THEN Tail(cache) ELSE cache)
               /\ (pc[w] = "deleteEvict" /\ pc'[w] = "deleteRespond")
                  => cache' = Without(cache, k)]_vars

\* C27 witness: the cache is full, the list that was used longest ago at
\* the start has been read again since and is still there, and the one used
\* longest ago after it has been evicted by the insert of a list that is now
\* the most recently used.
C27_Witness ==
    /\ Len(cache) = CacheSize
    /\ "100" \in CacheKeys(cache)
    /\ "101" \notin CacheKeys(cache)
    /\ cache[1].key = "102"
    /\ cache[CacheSize].key = "b"
    /\ pc[W1] = "done" /\ req[W1].id = "b" /\ resp[W1].status = 200

C29_SessionsOnlyAdded ==
    [][/\ sessions \subseteq sessions'
       /\ (sessions' # sessions)
          => \E w \in Workers :
                /\ pc[w] = "handleLogin" /\ pc'[w] = "done"
                /\ resp'[w].status = 200
                /\ Cardinality(sessions' \ sessions) = 1
                /\ \A s \in sessions' \ sessions :
                      /\ s.token = resp'[w].token
                      /\ s.username = UserOf(req[w].body.username)[1].Username
       /\ \A w \in Workers :
             /\ (pc[w] = "handleLogin" /\ pc'[w] = "done" /\ resp'[w].status = 200)
                => sessions' # sessions
             /\ (req[w].route # "login" /\ pc'[w] # pc[w] /\ req'[w] = req[w])
                => sessions' = sessions]_vars

\* C29 witness: a login has been answered 200 and its row is in the table
\* next to a row that has expired and is still there.
C29_Witness ==
    /\ pc[W1] = "done" /\ req[W1].route = "login" /\ resp[W1].status = 200
    /\ \E s \in sessions : s.token = resp[W1].token /\ s.expires_at > now
    /\ \E s \in sessions : s.expires_at <= now
    /\ Cardinality(sessions) = 2

\* ------------------------------------------------------------- properties of push and the cache
\* The items of sequence s.
ItemsOf(s) == {s[i] : i \in 1 .. Len(s)}

\* C30: with one request at a time, a GET of a list that is in the store is
\* answered 200 with a record that has every item the stored list has, the
\* pushed ones included, or 304 only for the Etag of the stored list.
C30_GetAfterPushSeesItem ==
    \A w \in Workers :
        (/\ pc[w] = "done" /\ req[w].route = "get"
         /\ ParseUUID(req[w].id).ok /\ RowId(req[w].id) \in DOMAIN store)
        => LET row == Row(store, RowId(req[w].id))
           IN /\ resp[w].status = 200
                 => /\ Len(resp[w].lists) = 1
                    /\ ItemsOf(row.items) \subseteq ItemsOf(resp[w].lists[1].items)
              /\ resp[w].status = 304 => req[w].inm = DigestOf(row)

\* ------------------------------------------------------------- properties of failed store calls
\* Worker w's step is the store call of GET, PUT, PATCH or DELETE of one
\* list, and the call fails: the database does not answer, the id is no
\* UUID, or (but for DELETE) there is no row of the id.
CachedCallFails(w) ==
    /\ req[w].route \in {"get", "update", "patch", "delete"}
    /\ req'[w] = req[w]
    /\ calls'[w].list = calls[w].list + 1
    /\ \/ ~dbUp
       \/ ~ParseUUID(req[w].id).ok
       \/ req[w].route # "delete" /\ RowId(req[w].id) \notin DOMAIN store

\* C31: a store call of GET, PUT, PATCH or DELETE that fails ends the
\* request with an error status and leaves cache and store as they are, so
\* no eviction and no insert follows it; and every entry of the cache is a
\* record of the list its key denotes.
C31_FailedCallKeepsCache ==
    [][/\ \A w \in Workers :
            CachedCallFails(w)
            => /\ pc'[w] = "done"
               /\ resp'[w].status \in {404, 500}
               /\ cache' = cache
               /\ store' = store
       /\ \A i \in 1 .. Len(cache') :
            /\ ParseUUID(cache'[i].key).ok
            /\ cache'[i].val.id = RowId(cache'[i].key)]_vars

\* C31 witness: a list is in the cache and a PUT of it has just failed
\* because the database did not answer; the entry is still there.
C31_Witness ==
    /\ pc[W1] = "done" /\ req[W1].route = "update" /\ resp[W1].status = 500
    /\ calls[W1].list = 1
    /\ ~dbUp
    /\ req[W1].id \in CacheKeys(cache)

\* ------------------------------------------------------------- properties of the token extraction
\* C32: whatever the Authorization header, a step of authRequired or of
\* adminRequired ends in a response 401 or 403 or in the function it wraps;
\* it never ends in a run-time panic.
C32_MiddlewareCompletes ==
    [][\A w \in Workers :
         (pc[w] \in {"authRequired", "adminRequired"} /\ pc'[w] # pc[w])
         => /\ pc'[w] # "panicked"
            /\ pc'[w] = "done" => resp'[w].status \in {401, 403}]_vars

\* What holds instead: authRequired panics exactly for a header that starts
\* with Bearer and has fewer than seven characters, which is the bare word
\* Bearer; adminRequired panics exactly when the session's username is not
\* in the user table; every other step of the two ends in 401, 403 or the
\* wrapped function.
C32_PanicsOnBareBearer ==
    [][\A w \in Workers :
         /\ (pc[w] = "authRequired" /\ pc'[w] # pc[w])
            => /\ pc'[w] = "panicked" <=> req[w].auth = Bearer
               /\ pc'[w] = "done" => resp'[w].status = 401
         /\ (pc[w] = "adminRequired" /\ pc'[w] # pc[w])
            => /\ pc'[w] = "panicked"
                  <=> (dbUp /\ \E s \in RowsFor(req[w].auth) : s.username \notin DOMAIN allUsers)
               /\ pc'[w] = "done" => resp'[w].status \in {401, 403}]_vars

C34_DeleteIdempotent ==
    [][\A w \in Workers :
         (/\ req[w].route = "delete" /\ ParseUUID(req[w].id).ok
          /\ pc'[w] # pc[w] /\ req'[w] = req[w])
         => /\ (pc[w] = "handleDeleteList" /\ dbUp) => pc'[w] = "deleteEvict"
            /\ pc[w] = "deleteEvict"
               => /\ pc'[w] = "deleteRespond"
                  /\ req[w].id \notin CacheKeys(cache')
            /\ pc[w] = "deleteRespond" => pc'[w] = "done" /\ resp'[w].status = 204
            /\ RowId(req[w].id) \notin DOMAIN store
               => /\ store' = store
                  /\ req[w].id \notin CacheKeys(cache) => cache' = cache
            /\ pc'[w] \in {"deleteEvict", "deleteRespond"}
               => RowId(req[w].id) \notin DOMAIN store']_vars

\* C34 witness: a DELETE of an id that never had a row has been answered
\* 204 and the list of the store is still there.
C34_Witness ==
    /\ pc[W1] = "done" /\ req[W1].route = "delete" /\ req[W1].id = "b"
    /\ resp[W1].status = 204
    /\ 11 \notin used
    /\ 10 \in DOMAIN store

====
